---- MODULE Spec2Model ----
(***************************************************************************)
(* A model of the xerus command line wrapper: environment substitution in  *)
(* the configuration (config.py), the tool specification resolver          *)
(* (tools/manager.py), manager agent assembly (tools/manager_factory.py,   *)
(* tools.py), session persistence (sessions.py, commands/chat.py) and the  *)
(* error decorator of the CLI commands (error_handler.py).                 *)
(*                                                                         *)
(* Strings that the code inspects character by character are sequences of  *)
(* one-character strings; strings it only compares are TLA+ strings.       *)
(***************************************************************************)
EXTENDS Integers, Sequences, FiniteSets, TLC

VARIABLES
    environ,      \* os.environ: a function from the names that are set to their values
    value,        \* the argument of substitute_env_vars (a configuration tree)
    results,      \* the values substitute_env_vars returned, in call order
    substPc,      \* "start" | "once" | "twice": calls of substitute_env_vars so far
    fs,           \* the paths for which os.path.exists is true
    tools,        \* ToolManager.tools: the registry, tool name -> tool
    tool_spec,    \* the argument of the last parse_tool_spec / load_tool_from_spec
    parsed,       \* what parse_tool_spec returned for it
    loaderCalls,  \* the loaders' load() calls the last operation made, in order
    remoteCalls,  \* the remote fetches (load_tool, Tool.from_space, ...) it made
    registered,   \* the names it passed to register_tool, in order
    raised,       \* the exception it raised, "none" when it returned
    toolPc,       \* "idle" | "parsed" | "loaded"
    sessionDir,   \* ~/.xerus/sessions: a function from the files in it to their documents
    clock,        \* datetime.now(), in seconds
    file_arg,     \* the session file passed to the last save_session / load_session
    history_arg,  \* the history passed to the last save_session
    metadata_arg, \* the metadata passed to it; None when the call passes none
    loaded,       \* what load_session returned
    sessRaised,   \* the exception the last save_session / load_session raised
    sessPc,       \* "idle" | "saved" | "loaded"
    historyFile,  \* ~/.xerus/history.json: Absent, Garbage or a JSON document
    chatPc,       \* "closed" | "prompt": whether a chat waits for input
    chats,        \* chat invocations so far
    inputs,       \* inputs processed as turns so far
    no_history,   \* --no-history of the running chat
    session_name, \* --session-name of the running chat, "" when not given
    session_file, \* its session file, NoFile when it has none
    history,      \* its history
    session_history, \* its session_history
    agent_history,   \* EnhancedAgent.history of its agent
    chat_log,     \* of the chat, where a log is kept: the inputs it took as turns, how
                  \* its loop ended and with which session_history; the entries that
                  \* "clear" has dropped; the chat that saved each session file
    configFile,   \* ~/.xerus/config.json: Absent, Unreadable, Garbage or a JSON document
    envFile,      \* ~/.xerus/.env: Absent, Unreadable or the variables it sets
    dotenv_available, \* DOTENV_AVAILABLE: python-dotenv is installed
    world,        \* what importing, constructing and connecting do outside the program
    config,       \* what the last load_config returned
    printed,      \* the diagnostics the last operation printed
    built,        \* what the last assembly did before it returned or raised
    cfgRaised,    \* the exception the last operation raised, "none" when it returned
    cfgPc,        \* "idle" | "loaded" | "assembled"
    templateFile, \* config_template.json of the package: Absent, Unreadable or its text
    xerus_dir,    \* whether the directory ~/.xerus exists
    argv,         \* the command line of the subcommand that runs
    home,         \* what init finds on the disk and what the user answers its prompts
    fault,        \* the exception the calls outside the command raise, NoFault when none
    thrown,       \* the exception that left the body of the command, NoFault when it returned
    console,      \* the messages the body of the command printed, in order
    panels,       \* the error panels handle_command_errors printed, in order
    created,      \* the files the command created under ~/.xerus
    returned,     \* what the wrapper returned; "no return" when it did not
    exit_status,  \* the exit status of the process, -1 while it runs
    cliPc,        \* "ready" | "done"
    env_mode,     \* the permission bits of ~/.xerus/.env, NoMode when it is not there
    env_key,      \* whether .env holds the API key that init wrote
    umask,        \* the file mode creation mask of the process
    chmod_raises, \* whether os.chmod of .env raises OSError
    said,         \* what init printed from the creation of .env on
    envPc,        \* where init is: "validated", "opened", "written", "chmod", "done", "raised"
    session_option, \* the --session option of load, a sequence of name chunks
    cwd_files,    \* the paths for which os.path.isfile is true
    dir_names,    \* the names that exist in ~/.xerus/sessions
    resolved,     \* what load resolved the option to, NoResolution before
    resolvePc,    \* "ready" | "done"
    disk,         \* the text of ~/.xerus/history.json that two chats share
    mem,          \* the history list of each of the two chat processes
    racePc,       \* where each process is: "start", "prompt", "save", "opened"
    asked,        \* the turns each process has processed
    raced,        \* whether another process had the file open during the save of each
    last_write,   \* the last write to the file: its process, its text, whether it raced
    called,       \* the function called: "get_model" | "create_agent"
    call_args,    \* the arguments of the call
    outside,      \* what the imports and the constructors outside the program do
    call_result,  \* what the call did, NoCall before
    callPc,       \* "ready" | "done"
    self_history, \* EnhancedAgent.history
    successes,    \* the runs in which the wrapped agent returned, since the last clear
    last_run,     \* the last call of EnhancedAgent.run, NoRun before it and after a clear
    agent_calls   \* the calls of run and clear_history so far, 0 with no EnhancedAgent

substVars == <<value, results, substPc>>
toolVars == <<fs, tools, tool_spec, parsed, loaderCalls, remoteCalls, registered,
              raised, toolPc>>

storeVars == <<sessionDir, clock>>
sessVars == <<file_arg, history_arg, metadata_arg, loaded, sessRaised, sessPc>>
chatVars == <<historyFile, chatPc, chats, inputs, no_history, session_name, session_file,
              history, session_history, agent_history, chat_log>>

cfgVars == <<configFile, envFile, dotenv_available, world, config, printed, built,
             cfgRaised, cfgPc, templateFile, xerus_dir>>

cliVars == <<argv, home, fault, thrown, console, panels, created, returned, exit_status, cliPc>>

permVars == <<env_mode, env_key, umask, chmod_raises, said, envPc>>

resolveVars == <<session_option, cwd_files, dir_names, resolved, resolvePc>>

raceVars == <<disk, mem, racePc, asked, raced, last_write>>

callVars == <<called, call_args, outside, call_result, callPc>>

agentVars == <<self_history, successes, last_run, agent_calls>>

vars == <<environ, substVars, toolVars, storeVars, sessVars, chatVars, cfgVars, cliVars,
          permVars, resolveVars, raceVars, callVars, agentVars>>

\* What each subsystem leaves alone
NotSubst == <<toolVars, storeVars, sessVars, chatVars, cfgVars, cliVars, permVars,
             resolveVars, raceVars, callVars, agentVars>>
NotTools == <<substVars, storeVars, sessVars, chatVars, cfgVars, cliVars, permVars,
             resolveVars, raceVars, callVars, agentVars>>
NotSess  == <<substVars, toolVars, chatVars, cfgVars, cliVars, permVars,
             resolveVars, raceVars, callVars, agentVars>>
NotChat  == <<substVars, toolVars, sessVars, cfgVars, cliVars, permVars,
             resolveVars, raceVars, callVars, agentVars>>
NotCfg   == <<substVars, toolVars, storeVars, sessVars, chatVars, cliVars, permVars,
             resolveVars, raceVars, callVars, agentVars>>
NotCli   == <<substVars, toolVars, storeVars, sessVars, chatVars, cfgVars, permVars,
             resolveVars, raceVars, callVars, agentVars>>
NotPerm  == <<substVars, toolVars, storeVars, sessVars, chatVars, cfgVars, cliVars,
             resolveVars, raceVars, callVars, agentVars>>
NotResolve == <<substVars, toolVars, storeVars, sessVars, chatVars, cfgVars, cliVars,
                permVars, raceVars, callVars, agentVars>>
NotRace  == <<substVars, toolVars, storeVars, sessVars, chatVars, cfgVars, cliVars,
             permVars, resolveVars, callVars, agentVars>>
NotCall  == <<substVars, toolVars, storeVars, sessVars, chatVars, cfgVars, cliVars,
             permVars, resolveVars, raceVars, agentVars>>
NotAgent == <<substVars, toolVars, storeVars, sessVars, chatVars, cfgVars, cliVars,
             permVars, resolveVars, raceVars, callVars>>

----------------------------------------------------------------------------
(* Bounds *)

\* Longest string, in pieces of Pieces, that the exhaustive string inputs hold.
MaxPieces == 4
\* Longest list or mapping of the configuration trees.
MaxWidth == 2
\* Longest tool specification, in chunks, that the exhaustive inputs hold.
MaxSpecChunks == 3
\* Longest history passed to save_session.
MaxEntries == 2
\* Calls of save_session on one file.
MaxSaves == 2
\* Chat invocations, one after the other.
MaxChats == 2
\* Inputs that the chats process as turns, all chats together.
MaxInputs == 2

----------------------------------------------------------------------------
(* Sequence helpers *)

Min(S) == CHOOSE x \in S : \A y \in S : x <= y

RECURSIVE Flatten(_)
Flatten(ss) == IF ss = <<>> THEN <<>> ELSE Head(ss) \o Flatten(Tail(ss))

SeqsUpTo(S, n) == UNION {[1..k -> S] : k \in 0..n}

\* First index j >= i of s whose character is in stop; Len(s) + 1 when none.
FirstIn(s, i, stop) ==
    LET cands == {j \in i..Len(s) : s[j] \in stop}
    IN  IF cands = {} THEN Len(s) + 1 ELSE Min(cands)

----------------------------------------------------------------------------
(* config.py: substitute_env_vars on a string                              *)

\* os.environ.get(var_name, default_value)
environ_get(var_name, default_value) ==
    IF var_name \in DOMAIN environ THEN environ[var_name] ELSE default_value

\* The pattern \$\{([^}:]+)(?::([^}]*))?\} tried at position i of s: group 1 is
\* the longest run of characters other than } and :, at least one; then either
\* } follows, or : with group 2 running to the first } after it.
NoMatch == [found |-> FALSE, end |-> 0, group1 |-> <<>>, has2 |-> FALSE, group2 |-> <<>>]

pattern_match(s, i) ==
    IF ~(i + 1 <= Len(s) /\ s[i] = "$" /\ s[i + 1] = "{") THEN NoMatch
    ELSE LET n == FirstIn(s, i + 2, {"}", ":"})
         IN  IF n = i + 2 \/ n > Len(s) THEN NoMatch
             ELSE IF s[n] = "}"
                  THEN [found |-> TRUE, end |-> n, group1 |-> SubSeq(s, i + 2, n - 1),
                        has2 |-> FALSE, group2 |-> <<>>]
                  ELSE LET d == FirstIn(s, n + 1, {"}"})
                       IN  IF d > Len(s) THEN NoMatch
                           ELSE [found |-> TRUE, end |-> d,
                                 group1 |-> SubSeq(s, i + 2, n - 1),
                                 has2 |-> TRUE, group2 |-> SubSeq(s, n + 1, d - 1)]

\* A plausible slip: an empty value counts as unset (os.environ.get(name) or default).
replace_var_EmptyIsUnset(m) ==
    LET default_value == IF m.has2 THEN m.group2 ELSE <<>>
    IN  IF m.group1 \in DOMAIN environ /\ environ[m.group1] # <<>>
        THEN environ[m.group1] ELSE default_value

replace_var(m) ==
    LET default_value == IF m.has2 THEN m.group2 ELSE <<>>
    IN  environ_get(m.group1, default_value)

\* re.sub(pattern, replace_var, s) from position i on: leftmost matches, not
\* overlapping; the replacement is not scanned again.
RECURSIVE re_sub(_, _)
re_sub(s, i) ==
    IF i > Len(s) THEN <<>>
    ELSE LET m == pattern_match(s, i)
         IN  IF m.found THEN replace_var(m) \o re_sub(s, m.end + 1)
             ELSE <<s[i]>> \o re_sub(s, i + 1)

----------------------------------------------------------------------------
(* Configuration trees: what json.load returns                             *)

Str(s)  == [t |-> "str", v |-> s]
Num(n)  == [t |-> "num", v |-> n]
Bool(b) == [t |-> "bool", v |-> b]
Null    == [t |-> "null", v |-> 0]
List(xs) == [t |-> "list", v |-> xs]
\* A mapping is the sequence of its <<key, value>> pairs in insertion order.
Dict(ps) == [t |-> "dict", v |-> ps]

\* A plausible slip: the keys of a mapping are substituted too.
RECURSIVE substitute_env_vars_Keys(_)
substitute_env_vars_Keys(x) ==
    CASE x.t = "str"  -> Str(re_sub(x.v, 1))
      [] x.t = "dict" -> Dict([i \in 1..Len(x.v) |->
                               <<re_sub(x.v[i][1], 1), substitute_env_vars_Keys(x.v[i][2])>>])
      [] x.t = "list" -> List([i \in 1..Len(x.v) |-> substitute_env_vars_Keys(x.v[i])])
      [] OTHER        -> x

RECURSIVE substitute_env_vars(_)
substitute_env_vars(x) ==
    CASE x.t = "str"  -> Str(re_sub(x.v, 1))
      [] x.t = "dict" -> Dict([i \in 1..Len(x.v) |->
                               <<x.v[i][1], substitute_env_vars(x.v[i][2])>>])
      [] x.t = "list" -> List([i \in 1..Len(x.v) |-> substitute_env_vars(x.v[i])])
      [] OTHER        -> x

----------------------------------------------------------------------------
(* sessions.py: save_session and load_session.  Python values are the     *)
(* trees above, with tuples and objects json cannot encode beside them; a  *)
(* mapping of a session has tagged keys (a string or a number).  A file    *)
(* holds the JSON document written to it.                                  *)

Tuple(xs) == [t |-> "tuple", v |-> xs]
Obj == [t |-> "object", v |-> 0]

Absent  == [t |-> "absent", v |-> 0]
Garbage == [t |-> "garbage", v |-> 0]

JString(s) == [t |-> "jstring", v |-> s]
JNumber(n) == [t |-> "jnumber", v |-> n]
JBool(b)   == [t |-> "jbool", v |-> b]
JNull      == [t |-> "jnull", v |-> 0]
JArray(xs) == [t |-> "jarray", v |-> xs]
JObject(ps) == [t |-> "jobject", v |-> ps]

\* str(n) of the numbers used as keys
str_of_int(n) == CASE n = 0 -> "0" [] n = 1 -> "1" [] OTHER -> "2"

\* Whether json.dump encodes x; it raises TypeError otherwise.
RECURSIVE json_encodable(_)
json_encodable(x) ==
    CASE x.t \in {"str", "num", "bool", "null"} -> TRUE
      [] x.t \in {"list", "tuple"} -> \A i \in 1..Len(x.v) : json_encodable(x.v[i])
      [] x.t = "dict" -> \A i \in 1..Len(x.v) :
                             x.v[i][1].t \in {"str", "num"} /\ json_encodable(x.v[i][2])
      [] OTHER -> FALSE

\* json.dump: tuples become arrays, number keys become strings
RECURSIVE json_dump(_)
json_dump(x) ==
    CASE x.t = "str"  -> JString(x.v)
      [] x.t = "num"  -> JNumber(x.v)
      [] x.t = "bool" -> JBool(x.v)
      [] x.t = "null" -> JNull
      [] x.t \in {"list", "tuple"} -> JArray([i \in 1..Len(x.v) |-> json_dump(x.v[i])])
      [] x.t = "dict" ->
           JObject([i \in 1..Len(x.v) |->
                      <<IF x.v[i][1].t = "str" THEN x.v[i][1].v ELSE str_of_int(x.v[i][1].v),
                        json_dump(x.v[i][2])>>])

\* json.load
RECURSIVE json_load(_)
json_load(j) ==
    CASE j.t = "jstring" -> Str(j.v)
      [] j.t = "jnumber" -> Num(j.v)
      [] j.t = "jbool"   -> Bool(j.v)
      [] j.t = "jnull"   -> Null
      [] j.t = "jarray"  -> List([i \in 1..Len(j.v) |-> json_load(j.v[i])])
      [] j.t = "jobject" ->
           Dict([i \in 1..Len(j.v) |-> <<Str(j.v[i][1]), json_load(j.v[i][2])>>])

\* bool(x) of Python
truthy(x) ==
    CASE x.t = "null" -> FALSE
      [] x.t = "bool" -> x.v
      [] x.t = "num"  -> x.v # 0
      [] x.t \in {"list", "tuple", "dict"} -> x.v # <<>>
      [] x.t = "str"  -> x.v # <<>>
      [] OTHER -> TRUE

\* datetime.now().isoformat()
isoformat(now) == Str(<<"T", now>>)

\* What open(session_file, "w") and json.dump leave: the file is truncated
\* first, and a TypeError in the middle of the dump leaves a broken document.
Written(data) ==
    IF json_encodable(data) THEN [file |-> json_dump(data), raised |-> "none"]
    ELSE [file |-> Garbage, raised |-> "TypeError"]

\* A plausible slip: the metadata is stored as passed, None included.
save_session_NoDefault(h, metadata, now) ==
    Written(Dict(<< <<Str("history"), h>>,
                    <<Str("timestamp"), isoformat(now)>>,
                    <<Str("metadata"), metadata>> >>))

\* save_session
save_session(h, metadata, now) ==
    Written(Dict(<< <<Str("history"), h>>,
                    <<Str("timestamp"), isoformat(now)>>,
                    <<Str("metadata"), IF truthy(metadata) THEN metadata ELSE Dict(<<>>)>> >>))

\* load_session
load_session(file) ==
    CASE file = Absent  -> [value |-> Null, raised |-> "FileNotFoundError"]
      [] file = Garbage -> [value |-> Null, raised |-> "JSONDecodeError"]
      [] OTHER -> [value |-> json_load(file), raised |-> "none"]

\* create_session_file: the name is made of the session name and the second
create_session_file(name, now) == [name |-> name, stamp |-> now]

NoFile == [name |-> "", stamp |-> -1]
NoFiles == [f \in {} |-> Absent]

\* the document of a file, and the directory after open(file, "w") and a write
read(dir, file) == IF file \in DOMAIN dir THEN dir[file] ELSE Absent
write(dir, file, doc) == [f \in DOMAIN dir \cup {file} |-> IF f = file THEN doc ELSE dir[f]]

\* d[key] of a mapping with tagged keys; None when the key is absent
item(d, key) ==
    LET hits == {i \in 1..Len(d.v) : d.v[i][1] = Str(key)}
    IN  IF d.t # "dict" \/ hits = {} THEN Null ELSE d.v[Min(hits)][2]

----------------------------------------------------------------------------
(* sessions.py: the rolling history file, and the chat loop's values       *)

\* The cap of save_conversation_history
HistoryCap == 50

\* --model-id of the chats
ModelId == "m"

\* The n-th input and the agent's reply to it; the agent returns a string
\* (EnhancedAgent.run -> str).
Text(n)  == Str(<<"input", n>>)
Reply(n) == Str(<<"reply", n>>)

\* load_conversation_history: no file, or a file json cannot parse, is []
load_conversation_history(file) ==
    IF file = Absent \/ file = Garbage THEN <<>> ELSE json_load(file).v

\* A plausible slip: the first entries are kept instead of the last
save_conversation_history_First(h) ==
    Written(List(IF Len(h) > HistoryCap THEN SubSeq(h, 1, HistoryCap) ELSE h))

\* save_conversation_history: history[-50:] if len(history) > 50 else history
save_conversation_history(h) ==
    Written(List(IF Len(h) > HistoryCap
                 THEN SubSeq(h, Len(h) - HistoryCap + 1, Len(h))
                 ELSE h))

\* A plausible slip: the history is saved whether or not --no-history is given
history_file_after_turn_Always(nh, file, h) == save_conversation_history(h).file

\* if not no_history: save_conversation_history(history): the file after a turn
history_file_after_turn(nh, file, h) ==
    IF nh THEN file ELSE save_conversation_history(h).file

\* The metadata the chat saves with a session
\* The log of the chats: not kept, and kept with no chat yet
NoChatLog == [on |-> FALSE, turns |-> 0, ended |-> "no", final |-> <<>>, cleared |-> {},
              saved_by |-> NoFiles]
ChatLogOn == [NoChatLog EXCEPT !.on = TRUE]

ChatMetadata == Dict(<< <<Str("model_id"), Str(ModelId)>> >>)

----------------------------------------------------------------------------
(* sessions.py: the history file under two chat processes.  The text of    *)
(* the file is the sequence of the entries json.dump wrote and the bracket *)
(* that closes the array; open(history_file, "w") empties the file, and    *)
(* the text reaches it from offset 0 when the with block closes it.        *)

EndOfText == [t |-> "]", v |-> 0]

\* json.dump(history_to_save, f): the text of a document
text_of(file) == file.v \o <<EndOfText>>

\* The document a text is, Garbage when json.load cannot parse it
file_of(text) ==
    IF /\ Len(text) >= 1
       /\ text[Len(text)].t = "]"
       /\ \A i \in 1..(Len(text) - 1) : text[i].t # "]"
    THEN JArray(SubSeq(text, 1, Len(text) - 1))
    ELSE Garbage

\* A plausible slip: the file is opened without being emptied
open_w_Keep(text) == text

\* open(history_file, "w")
open_w(text) == <<>>

\* The write of a text at offset 0 of a file
write_at_0(old, text) == text \o SubSeq(old, Len(text) + 1, Len(old))

NoWrite == [by |-> 0, text |-> <<>>, raced |-> FALSE]

----------------------------------------------------------------------------
(* models/base.py and agent.py: get_model and create_agent.  A call gives   *)
(* the exception it raised ("none": it returned) with its message, the      *)
(* model objects constructed and the CodeAgents constructed, each with its  *)
(* additional_authorized_imports.  The --imports string is the sequence of  *)
(* its chunks: package names, " " and ",".                                  *)

NoArgs == [model_type |-> "", model_id |-> "", imports |-> <<>>, tools |-> <<>>,
           tool_option |-> "", tool_dirs |-> <<>>]

NoCall == [raised |-> "none", message |-> <<>>, models |-> 0, agents |-> <<>>,
           warnings |-> <<>>]

\* Outside the program nothing fails
Quiet_ == [accepts |-> TRUE, module |-> "none", initialize |-> "none", tool_load |-> "none",
           broken |-> {}, code_agent |-> "none"]

\* model_map of get_model
model_map == {"inference", "openai", "litellm", "transformers", "mlx-lm"}

Raised(e, message) == [NoCall EXCEPT !.raised = e, !.message = message]

\* The except clauses of get_model on what initialize_model raised: the
\* classes of errors.py it re-raises, the others by the words of their text
initialize_raises(e) ==
    CASE e \in {"ModelInitializationError", "ModelNotFoundError", "AuthenticationError"} -> e
      [] e = "ImportError" -> "ModelInitializationError"
      [] e = "ConnectionError" -> "NetworkError"
      [] e = "Exception: 401" -> "AuthenticationError"
      [] e = "Exception: timeout" -> "NetworkError"
      [] OTHER -> "ModelInitializationError"

\* A plausible slip: the model type is looked up without the test
get_model_NoTest(model_type, model_id, w) ==
    IF model_type \notin model_map
    THEN Raised(initialize_raises("KeyError"), <<"Failed to initialize model: ", model_type>>)
    ELSE IF w.module # "none"
    THEN Raised(IF w.module = "ImportError" THEN "ModelInitializationError"
                ELSE "ModelNotFoundError", <<>>)
    ELSE IF w.initialize # "none" THEN Raised(initialize_raises(w.initialize), <<>>)
    ELSE [NoCall EXCEPT !.models = 1]

\* get_model(model_type, model_id, **kwargs)
get_model(model_type, model_id, w) ==
    IF model_type \notin model_map
    THEN Raised("ModelConfigurationError", <<"Unknown model type: ", model_type>>)
    ELSE IF w.module # "none"
    THEN Raised(IF w.module = "ImportError" THEN "ModelInitializationError"
                ELSE "ModelNotFoundError", <<>>)
    ELSE IF w.initialize # "none" THEN Raised(initialize_raises(w.initialize), <<>>)
    ELSE [NoCall EXCEPT !.models = 1]

\* str.split(sep) on a string of chunks
RECURSIVE split_on(_, _)
split_on(s, sep) ==
    LET c == FirstIn(s, 1, {sep})
    IN  IF c > Len(s) THEN <<s>>
        ELSE <<SubSeq(s, 1, c - 1)>> \o split_on(SubSeq(s, c + 1, Len(s)), sep)

\* ToolManager.discover_tools on a directory: one that does not exist is a
\* warning and no tool, a file of it that cannot be loaded is a warning, and
\* what is no ToolLoadError (a directory that may not be read) is raised
discover_tools(directory) ==
    CASE directory = "./missing" ->
           [raised |-> "none", tools |-> <<>>, warnings |-> <<"does not exist">>]
      [] directory = "./denied" ->
           [raised |-> "PermissionError", tools |-> <<>>, warnings |-> <<>>]
      [] directory = "./mixed" ->
           [raised |-> "none", tools |-> <<"dir_tool">>, warnings |-> <<"Could not load tools">>]
      [] OTHER -> [raised |-> "none", tools |-> <<"dir_tool">>, warnings |-> <<>>]

\* The loop over the tools list of create_agent: r is [tools, warnings]
RECURSIVE load_tool_specs(_, _, _)
load_tool_specs(specs, w, r) ==
    IF specs = <<>> THEN r
    ELSE load_tool_specs(Tail(specs), w,
            IF Head(specs) \in w.broken
            THEN [r EXCEPT !.warnings = @ \o <<"Failed to load tool">>]
            ELSE [r EXCEPT !.tools = @ \o <<Head(specs)>>])

\* The loop over tool_dirs of create_agent
RECURSIVE discover_tool_dirs(_, _)
discover_tool_dirs(dirs, r) ==
    IF dirs = <<>> THEN r
    ELSE LET d == discover_tools(Head(dirs))
         IN  discover_tool_dirs(Tail(dirs),
                IF d.raised # "none"
                THEN [r EXCEPT !.warnings = @ \o d.warnings \o <<"Error discovering tools">>]
                ELSE [r EXCEPT !.tools = @ \o d.tools, !.warnings = @ \o d.warnings])

\* The values of the dict unique_tools, keyed by the name of the tool
RECURSIVE unique_tools(_)
unique_tools(ts) ==
    IF ts = <<>> THEN <<>>
    ELSE LET rest == unique_tools(SubSeq(ts, 1, Len(ts) - 1))
         IN  IF \E k \in 1..Len(rest) : rest[k] = ts[Len(ts)] THEN rest
             ELSE rest \o <<ts[Len(ts)]>>

\* A plausible slip: a tool of the tools list that cannot be loaded is fatal
\* as one of --tool-local is
agent_create_agent_ToolsFatal(args, w) ==
    LET model == IF w.accepts THEN get_model(args.model_id, args.model_id, w)
                 ELSE Raised("TypeError", <<"get_model() missing 1 required positional argument: ",
                                            "model_id">>)
        listed == load_tool_specs(args.tools, w, [tools |-> <<>>, warnings |-> <<>>])
        found == discover_tool_dirs(args.tool_dirs,
                     IF args.tool_option = "" THEN listed
                     ELSE [listed EXCEPT !.tools = @ \o <<args.tool_option>>])
        additional_imports == IF args.imports # <<>> THEN split_on(args.imports, ",") ELSE <<>>
    IN  IF model.raised # "none" THEN model
        ELSE IF listed.warnings # <<>> THEN [model EXCEPT !.raised = "ToolLoadError"]
        ELSE IF args.tool_option # "" /\ w.tool_load # "none"
        THEN [model EXCEPT !.raised = "ToolLoadError", !.warnings = listed.warnings]
        ELSE IF w.code_agent # "none"
        THEN [model EXCEPT !.raised = "AgentRuntimeError",
                           !.message = <<"Failed to initialize agent: ", w.code_agent>>,
                           !.warnings = found.warnings]
        ELSE [model EXCEPT !.agents = <<[tools |-> unique_tools(found.tools),
                                         additional_authorized_imports |-> additional_imports]>>,
                           !.warnings = found.warnings]

\* create_agent of agent.py: it passes its model_id where get_model takes
\* the model type and gives no model_id, which get_model as it is defined
\* rejects with TypeError (w.accepts: a get_model that takes the call, as the
\* patched one of tests/test_cli.py).  A specification of the tools list
\* that raises ToolLoadError (w.broken) is a warning; the tool of
\* --tool-local, --tool-hub, --tool-space or --tool-collection (tool_option,
\* the tool named after it) that raises it (w.tool_load) is fatal; what
\* discover_tools raises is a warning.
agent_create_agent(args, w) ==
    LET model == IF w.accepts THEN get_model(args.model_id, args.model_id, w)
                 ELSE Raised("TypeError", <<"get_model() missing 1 required positional argument: ",
                                            "model_id">>)
        listed == load_tool_specs(args.tools, w, [tools |-> <<>>, warnings |-> <<>>])
        found == discover_tool_dirs(args.tool_dirs,
                     IF args.tool_option = "" THEN listed
                     ELSE [listed EXCEPT !.tools = @ \o <<args.tool_option>>])
        additional_imports == IF args.imports # <<>> THEN split_on(args.imports, ",") ELSE <<>>
    IN  IF model.raised # "none" THEN model
        ELSE IF args.tool_option # "" /\ w.tool_load # "none"
        THEN [model EXCEPT !.raised = "ToolLoadError", !.warnings = listed.warnings]
        ELSE IF w.code_agent # "none"
        THEN [model EXCEPT !.raised = "AgentRuntimeError",
                           !.message = <<"Failed to initialize agent: ", w.code_agent>>,
                           !.warnings = found.warnings]
        ELSE [model EXCEPT !.agents = <<[tools |-> unique_tools(found.tools),
                                         additional_authorized_imports |-> additional_imports]>>,
                           !.warnings = found.warnings]

----------------------------------------------------------------------------
(* agent.py: EnhancedAgent.  A prompt is a number, the reply to it the same *)
(* number; the complete prompt is the context, the exchanges put before it  *)
(* and the prompt.  What the wrapped agent does with a prompt is "returns", *)
(* an exception class it raises, or "KeyboardInterrupt".                    *)

\* The exchanges put into the prompt: self.history[-5:]
HistoryWindow == 5

NoRun == [prompt |-> 0, context |-> "", include_history |-> FALSE, outcome |-> "none",
          before |-> <<>>, sent |-> <<>>, raised |-> "none"]

Exchange(prompt, response) == [user |-> prompt, agent |-> response]

\* complete_prompt of run
complete_prompt(h, prompt, context, include_history) ==
    [context |-> context,
     previous |-> IF include_history /\ h # <<>>
                  THEN IF Len(h) > HistoryWindow
                       THEN SubSeq(h, Len(h) - HistoryWindow + 1, Len(h))
                       ELSE h
                  ELSE <<>>,
     prompt |-> prompt]

\* A plausible slip: the exchange is recorded before the wrapped agent has returned
EnhancedAgent_run_RecordsFirst(h, prompt, context, include_history, outcome) ==
    [history |-> Append(h, Exchange(prompt, prompt)),
     sent |-> <<complete_prompt(h, prompt, context, include_history)>>,
     raised |-> IF outcome = "returns" THEN "none"
                ELSE IF outcome = "KeyboardInterrupt" THEN outcome
                ELSE "AgentRuntimeError"]

\* EnhancedAgent.run: the history after it, the prompt the wrapped agent
\* was given and the exception raised; except Exception lets
\* KeyboardInterrupt pass
EnhancedAgent_run(h, prompt, context, include_history, outcome) ==
    [history |-> IF outcome = "returns" THEN Append(h, Exchange(prompt, prompt)) ELSE h,
     sent |-> <<complete_prompt(h, prompt, context, include_history)>>,
     raised |-> IF outcome = "returns" THEN "none"
                ELSE IF outcome = "KeyboardInterrupt" THEN outcome
                ELSE "AgentRuntimeError"]

----------------------------------------------------------------------------
(* config.py: load_config.  The strings of a configuration are sequences  *)
(* of characters, its keys are plain.                                      *)

Unreadable == [t |-> "unreadable", v |-> 0]

\* A .env file that sets the variables of f
EnvDoc(f) == [t |-> "env", v |-> f]

\* load_dotenv(env_file): the variables of the file that are not set yet
load_dotenv(env, file) ==
    [n \in DOMAIN env \cup DOMAIN file.v |-> IF n \in DOMAIN env THEN env[n] ELSE file.v[n]]

\* The .env part of load_config, before the try: whether load_dotenv is
\* called, and what it does to os.environ; open() fails on an unreadable file
dotenv_called == dotenv_available /\ envFile # Absent
dotenv_raises == dotenv_called /\ envFile = Unreadable
environ_after_dotenv ==
    IF dotenv_called /\ ~dotenv_raises THEN load_dotenv(environ, envFile) ELSE environ

\* What json.load(f) of config.json returns when it returns
parsed_config == IF configFile \in {Absent, Unreadable, Garbage} THEN Null ELSE json_load(configFile)

\* A plausible slip: only parse errors are caught, the others propagate
read_config_ParseErrorsOnly(file, substituted) ==
    CASE file = Absent ->
           [value |-> Dict(<<>>), raised |-> "none", printed |-> <<"Configuration file not found">>]
      [] file = Unreadable ->
           [value |-> Null, raised |-> "PermissionError", printed |-> <<>>]
      [] file = Garbage ->
           [value |-> Dict(<<>>), raised |-> "none", printed |-> <<"Error parsing configuration file">>]
      [] OTHER ->
           [value |-> substituted, raised |-> "none", printed |-> <<>>]

\* The config.json part of load_config: the exists() test and the try;
\* substituted is substitute_env_vars(config) of the parsed file
read_config(file, substituted) ==
    CASE file = Absent ->
           [value |-> Dict(<<>>), raised |-> "none", printed |-> <<"Configuration file not found">>]
      [] file = Unreadable ->
           [value |-> Dict(<<>>), raised |-> "none", printed |-> <<"Error loading configuration">>]
      [] file = Garbage ->
           [value |-> Dict(<<>>), raised |-> "none", printed |-> <<"Error parsing configuration file">>]
      [] OTHER ->
           [value |-> substituted, raised |-> "none", printed |-> <<>>]

\* A plausible slip: the template is copied over a file that exists
ensure_config_exists_Overwrite(dir_exists, file, template) ==
    LET made == IF dir_exists THEN <<>> ELSE <<"Created Xerus config directory">>
    IN  CASE template = Absent ->
               [file |-> file, printed |-> made \o <<"Template config file not found">>]
          [] template = Unreadable ->
               [file |-> file, printed |-> made \o <<"Error creating config file">>]
          [] OTHER ->
               [file |-> template, printed |-> made \o <<"Created default config file">>]

\* ensure_config_exists: the directory is made, and config.json, when it is
\* not there, is written with the text of the template; a template that is
\* missing or cannot be read leaves a message and no file
ensure_config_exists(dir_exists, file, template) ==
    LET made == IF dir_exists THEN <<>> ELSE <<"Created Xerus config directory">>
    IN  CASE file # Absent -> [file |-> file, printed |-> made]
          [] template = Absent ->
               [file |-> file, printed |-> made \o <<"Template config file not found">>]
          [] template = Unreadable ->
               [file |-> file, printed |-> made \o <<"Error creating config file">>]
          [] OTHER ->
               [file |-> template, printed |-> made \o <<"Created default config file">>]

\* dict.get(key, default)
config_get(d, key, default) ==
    LET hits == {i \in 1..Len(d.v) : d.v[i][1] = Str(key)}
    IN  IF hits = {} THEN default ELSE d.v[CHOOSE i \in hits : TRUE][2]

----------------------------------------------------------------------------
(* Assembly of the manager agent: tools/manager_factory.py with           *)
(* tools/builtin_manager.py, tools/importer.py, tools/factory.py and       *)
(* tools/mcp_manager.py, and the older tools.py.  A result records what    *)
(* was done: the classes given to importlib, the worker agents, the MCP    *)
(* servers contacted, the model clients created, the manager agent and the *)
(* exception raised.  A server name is the sequence of its chunks: "_" and *)
(* the texts between.                                                      *)

NoAgent == [name |-> Null, model_id |-> Null, tools |-> <<>>, managed |-> <<>>]

Nothing == [imports |-> <<>>, tools |-> <<>>, agents |-> <<>>, contacted |-> <<>>,
            clients |-> <<>>, manager |-> NoAgent, printed |-> <<>>, raised |-> "none"]

\* ModelFactory.create_client: the exception it raises, "none" when it
\* returns a client
create_client(model_id, api_key, w) ==
    IF model_id = Null THEN "ModelNotFoundError"
    ELSE IF api_key = Null THEN "AuthenticationError"
    ELSE IF model_id \in w.badModels THEN "ModelInitializationError"
    ELSE "none"

\* A tool: the class it is an instance of (for an MCP tool, its name) and
\* how it was constructed: "params", "none" or "mcp"
ToolInstance(of, args) == [of |-> of, args |-> args]

\* A plausible slip: a constructor that rejects the parameters is not tried again
tool_instance_NoRetry(tool_class, w) ==
    CASE w.ctor[tool_class] = "ok" -> [args |-> "params", raised |-> "none", printed |-> <<>>]
      [] w.ctor[tool_class] = "TypeError" ->
           [args |-> "skip", raised |-> "none",
            printed |-> <<"Warning: Tool doesn't accept some parameters">>]
      [] OTHER -> [args |-> "skip", raised |-> w.ctor[tool_class], printed |-> <<>>]

\* tool_instance: tool_class(**tool_params), after its TypeError
\* tool_class(), and after any exception of that the skip; another
\* exception of the first call is not caught
tool_instance(tool_class, w) ==
    CASE w.ctor[tool_class] = "ok" -> [args |-> "params", raised |-> "none", printed |-> <<>>]
      [] w.ctor[tool_class] = "TypeError" ->
           IF w.ctor0[tool_class] = "ok"
           THEN [args |-> "none", raised |-> "none",
                 printed |-> <<"Warning: Tool doesn't accept some parameters",
                               "Creating tool without parameters">>]
           ELSE [args |-> "skip", raised |-> "none",
                 printed |-> <<"Warning: Tool doesn't accept some parameters",
                               "Creating tool without parameters", "Error creating tool">>]
      [] OTHER -> [args |-> "skip", raised |-> w.ctor[tool_class], printed |-> <<>>]

\* load_tools_from_config / the first loop of setup_built_in_tools, from
\* entry i on: r is the result so far
RECURSIVE load_tools_from_config(_, _, _, _)
load_tools_from_config(entries, i, w, r) ==
    IF i > Len(entries) THEN r
    ELSE
    LET tool_name == entries[i][1]
        tool_config == entries[i][2]
        tool_class_path == config_get(tool_config, "tool_class", Null)
        imported == [r EXCEPT !.imports = Append(@, tool_class_path.v)]
        t == tool_instance(tool_class_path.v, w)
        tried == [imported EXCEPT !.printed = @ \o t.printed]
        made == [tried EXCEPT !.tools = Append(@,
                    [tool |-> ToolInstance(tool_class_path.v, t.args),
                     name |-> config_get(tool_config, "name", tool_name),
                     model_id |-> config_get(tool_config, "model_id", Str(<<>>)),
                     api_key |-> config_get(tool_config, "api_key", Str(<<>>)),
                     api_base |-> config_get(tool_config, "api_base", Str(<<>>))])]
    IN  IF ~truthy(tool_class_path)
        THEN load_tools_from_config(entries, i + 1, w,
                 [r EXCEPT !.printed = Append(@, "Warning: No tool_class specified")])
        ELSE IF tool_class_path.v \notin w.importable
             THEN load_tools_from_config(entries, i + 1, w,
                      [imported EXCEPT !.printed = Append(@, "Warning: Could not load tool class")])
        ELSE IF t.raised # "none" THEN [tried EXCEPT !.raised = t.raised]
        ELSE IF t.args = "skip" THEN load_tools_from_config(entries, i + 1, w, tried)
        ELSE load_tools_from_config(entries, i + 1, w, made)

\* A plausible slip: the workers are made without a model client of their own
create_agent_NoClient(tool, name, model_id, api_key, w, legacy, r) ==
    [r EXCEPT !.agents = Append(@, [name |-> name, model_id |-> model_id, api_key |-> api_key,
                                    tools |-> <<tool>>])]

\* ToolAgentFactory.create_agent / create_tool_agent for one tool: the
\* result with the client and the agent, or with the exception
create_agent(tool, name, model_id, api_key, w, legacy, r) ==
    LET e == create_client(model_id, api_key, w)
    IN  IF e # "none" THEN [r EXCEPT !.raised = IF legacy THEN e ELSE "AgentRuntimeError"]
        ELSE [r EXCEPT !.clients = Append(@, model_id),
                       !.agents = Append(@, [name |-> name, model_id |-> model_id,
                                              api_key |-> api_key, tools |-> <<tool>>])]

\* create_tool_agents, from tool i on: the new code skips a tool whose agent
\* cannot be made, the old code lets the exception pass
RECURSIVE create_tool_agents(_, _, _, _, _)
create_tool_agents(tools_, i, w, legacy, r) ==
    IF i > Len(tools_) THEN r
    ELSE LET made == create_agent(tools_[i].tool, tools_[i].name, tools_[i].model_id,
                                  tools_[i].api_key, w, legacy, r)
         IN  IF made.raised = "none" THEN create_tool_agents(tools_, i + 1, w, legacy, made)
             ELSE IF legacy THEN made
             ELSE create_tool_agents(tools_, i + 1, w, legacy, r)

\* create_server_config / create_mcp_server_parameters: whether it returns
\* parameters; only the new code knows the streamable-http transport
has_server_params(server_config, legacy) ==
    IF ~legacy /\ config_get(server_config, "transport", Null) = Str(<<"streamable-http">>)
    THEN truthy(config_get(server_config, "url", Null))
    ELSE truthy(config_get(server_config, "command", Null))

\* load_tools_from_servers / load_mcp_tools, from server i on: a server is
\* contacted unless its name starts with "_", it is disabled or its entry
\* lacks the command; its tools are renamed <server>_<tool>
RECURSIVE load_tools_from_servers(_, _, _, _, _)
load_tools_from_servers(servers, i, w, legacy, r) ==
    IF i > Len(servers) THEN r
    ELSE
    LET server_name == servers[i][1].v
        server_config == servers[i][2]
        contacted == [r EXCEPT !.contacted = Append(@, server_name)]
        found == w.servers[server_name]
    IN  IF (server_name # <<>> /\ server_name[1] = "_")
           \/ truthy(config_get(server_config, "_disabled", Bool(FALSE)))
           \/ ~has_server_params(server_config, legacy)
        THEN load_tools_from_servers(servers, i + 1, w, legacy, r)
        ELSE IF found.down
             THEN load_tools_from_servers(servers, i + 1, w, legacy, contacted)
        ELSE load_tools_from_servers(servers, i + 1, w, legacy,
                 [contacted EXCEPT !.tools =
                      @ \o [k \in 1..Len(found.names) |-> server_name \o <<"_">> \o found.names[k]]])

\* tool.name.split('_')[0]
first_part(name) == SubSeq(name, 1, FirstIn(name, 1, {"_"}) - 1)

\* MCPServerManager.create_tool_agents / setup_mcp_tool_agents, from tool i
\* on: the model of the server the name points to, else the manager's; a tool
\* whose agent cannot be made is skipped
RECURSIVE create_mcp_tool_agents(_, _, _, _, _, _, _)
create_mcp_tool_agents(mcp_tools, i, server_configs, default_model_config, w, legacy, r) ==
    IF i > Len(mcp_tools) THEN r
    ELSE
    LET name == mcp_tools[i]
        server_config == config_get(server_configs, first_part(name), Dict(<<>>))
        made == create_agent(ToolInstance(name, "mcp"), Str(<<"mcp", "_">> \o name),
                             config_get(server_config, "model_id", default_model_config.model_id),
                             config_get(server_config, "api_key", default_model_config.api_key),
                             w, legacy, r)
    IN  create_mcp_tool_agents(mcp_tools, i + 1, server_configs, default_model_config, w, legacy,
                               IF made.raised = "none" THEN made ELSE r)

\* _setup_all_tool_agents / setup_built_in_tools
setup_all_tool_agents(config_, manager_config, w, legacy) ==
    LET loaded_ == load_tools_from_config(config_get(config_, "tools", Dict(<<>>)).v, 1, w, Nothing)
        workers == create_tool_agents(loaded_.tools, 1, w, legacy, [loaded_ EXCEPT !.tools = <<>>])
        mcp_servers_config == config_get(config_, "mcpServers", Dict(<<>>))
        default_model_config == [model_id |-> config_get(manager_config, "model_id", Null),
                                 api_key |-> config_get(manager_config, "api_key", Null)]
        mcp == load_tools_from_servers(mcp_servers_config.v, 1, w, legacy, workers)
    IN  IF loaded_.raised # "none" THEN loaded_
        ELSE IF workers.raised # "none" THEN workers
        ELSE IF ~truthy(mcp_servers_config) THEN workers
        ELSE create_mcp_tool_agents(mcp.tools, 1, mcp_servers_config, default_model_config,
                                    w, legacy, [mcp EXCEPT !.tools = <<>>])

\* The manager's own client and agent, after the workers
finish_manager_agent(manager_config, w, r) ==
    LET model_id == config_get(manager_config, "model_id", Null)
        e == create_client(model_id, config_get(manager_config, "api_key", Null), w)
    IN  IF r.raised # "none" THEN r
        ELSE IF e # "none"
             THEN [r EXCEPT !.raised = e,
                            !.printed = Append(@, "Error creating manager agent model client")]
        ELSE [r EXCEPT !.clients = Append(@, model_id),
                       !.manager = [name |-> config_get(manager_config, "name", Null),
                                    model_id |-> model_id, tools |-> <<>>,
                                    managed |-> r.agents],
                       !.printed = Append(@, "Manager agent created successfully")]

\* A plausible slip: the workers are set up before the section is looked for
create_manager_agent_CheckLate(config_, w, legacy) ==
    LET manager_config == config_get(config_, "manager_agent", Dict(<<>>))
        workers == setup_all_tool_agents(config_, Dict(<<>>), w, legacy)
    IN  IF ~truthy(manager_config)
        THEN [workers EXCEPT !.raised = "ValueError",
                             !.printed = Append(@, "No manager_agent configuration found")]
        ELSE finish_manager_agent(manager_config, w,
                                  setup_all_tool_agents(config_, manager_config, w, legacy))

\* ManagerAgentFactory.create_manager_agent (legacy false) and
\* setup_manager_agent of tools.py (legacy true), after their load_config()
create_manager_agent(config_, w, legacy) ==
    LET manager_config == config_get(config_, "manager_agent", Dict(<<>>))
    IN  IF ~truthy(manager_config)
        THEN [Nothing EXCEPT !.raised = "ValueError",
                             !.printed = <<"No manager_agent configuration found">>]
        ELSE finish_manager_agent(manager_config, w,
                                  setup_all_tool_agents(config_, manager_config, w, legacy))

----------------------------------------------------------------------------
(* errors.py: the exception classes, with those of Python and click that   *)
(* the commands meet.  A raised exception is its class and its             *)
(* recovery_hint, "" when it has none (None, or no such attribute).        *)
(* EnvironmentError is the class of errors.py, which error_handler.py      *)
(* imports over the builtin alias of OSError.                              *)

XerusClasses ==
    {"XerusError", "ModelError", "ModelInitializationError", "ModelNotFoundError",
     "ModelConfigurationError", "AuthenticationError", "ToolError", "ToolLoadError",
     "ToolExecutionError", "AgentRuntimeError", "InputError", "NetworkError",
     "APILimitError", "EnvironmentError"}

OtherClasses ==
    {"Exception", "ValueError", "JSONDecodeError", "OSError", "PermissionError",
     "RuntimeError", "Abort", "TypeError", "AttributeError", "KeyboardInterrupt"}

\* The base class of a class
bases(c) ==
    CASE c \in {"ModelInitializationError", "ModelNotFoundError", "ModelConfigurationError"}
           -> "ModelError"
      [] c \in {"ToolLoadError", "ToolExecutionError"} -> "ToolError"
      [] c \in {"ModelError", "AuthenticationError", "ToolError", "AgentRuntimeError",
                "InputError", "NetworkError", "APILimitError", "EnvironmentError"}
           -> "XerusError"
      [] c = "JSONDecodeError" -> "ValueError"
      [] c = "PermissionError" -> "OSError"
      [] c = "Abort" -> "RuntimeError"
      [] c \in {"XerusError", "ValueError", "OSError", "RuntimeError", "TypeError",
                "AttributeError"} -> "Exception"
      [] OTHER -> "BaseException"

\* issubclass(c, k)
RECURSIVE issubclass(_, _)
issubclass(c, k) == c = k \/ (c # "BaseException" /\ issubclass(bases(c), k))

NoFault == [class |-> "none", hint |-> ""]

\* The hint APILimitError composes for itself
APILimitHint == "Consider reducing request frequency or upgrading your plan."

----------------------------------------------------------------------------
(* ui/display.py and error_handler.py: the panels and the decorator of the *)
(* commands.  What a body did is [console, raises, result, created]; what   *)
(* the wrapper did is the panels it printed, what it returned, whether it  *)
(* called sys.exit(1) and the exception it let through.                    *)

\* print_error_panel: one panel; the hint section is there when the hint is truthy
print_error_panel(error_type, title, recovery_hint) ==
    [title |-> title, error_type |-> error_type, hint |-> recovery_hint]

DefaultAuthHint == "To use Hugging Face models, you need to set your HF_TOKEN"

\* print_auth_error: one panel, with the default hint when the error has none
print_auth_error(recovery_hint) ==
    [title |-> "Authentication Error", error_type |-> "Authentication Error",
     hint |-> IF recovery_hint # "" THEN recovery_hint ELSE DefaultAuthHint]

ReportHint == "Please report this issue to the Xerus developers"

Clause(class, error_type, title) == [class |-> class, error_type |-> error_type, title |-> title]

\* The except clauses of the wrapper, in the order of the source
ExceptClauses ==
    << Clause("AuthenticationError", "Authentication Error", "Authentication Error"),
       Clause("ModelNotFoundError", "Model Not Found", "Model Error"),
       Clause("ModelInitializationError", "Model Error", "Model Initialization Failed"),
       Clause("ModelConfigurationError", "Configuration Error", "Model Configuration Error"),
       Clause("ToolLoadError", "Tool Error", "Tool Loading Failed"),
       Clause("ToolExecutionError", "Tool Error", "Tool Execution Failed"),
       Clause("NetworkError", "Network Error", "Connection Failed"),
       Clause("APILimitError", "API Limit Error", "API Limit Reached"),
       Clause("AgentRuntimeError", "Agent Error", "Execution Failed"),
       Clause("EnvironmentError", "Environment Error", "Environment Setup Failed"),
       Clause("InputError", "Input Error", "Invalid Input"),
       Clause("XerusError", "Xerus Error", "Error"),
       Clause("Exception", "Unexpected Error", "Unhandled Error") >>

\* The body of one except clause: the panel it prints for the exception e
except_body(clause, e) ==
    IF clause.class = "AuthenticationError" THEN print_auth_error(e.hint)
    ELSE IF clause.class = "Exception"
         THEN print_error_panel(clause.error_type, clause.title, ReportHint)
         ELSE print_error_panel(clause.error_type, clause.title, e.hint)

\* try: return func(...) under a list of except clauses: the first clause
\* whose class the exception is an instance of handles it and exits with 1
try_except(clauses, outcome) ==
    LET e == outcome.raises
        hits == {i \in 1..Len(clauses) : issubclass(e.class, clauses[i].class)}
    IN  IF e = NoFault
        THEN [panels |-> <<>>, returned |-> outcome.result, exits |-> FALSE,
              propagates |-> "none"]
        ELSE IF hits = {}
        THEN [panels |-> <<>>, returned |-> "no return", exits |-> FALSE,
              propagates |-> e.class]
        ELSE [panels |-> <<except_body(clauses[Min(hits)], e)>>, returned |-> "no return",
              exits |-> TRUE, propagates |-> "none"]

\* A plausible slip: the clause of the base class XerusError comes first
handle_command_errors_BaseFirst(outcome) ==
    try_except(<<ExceptClauses[12]>> \o ExceptClauses, outcome)

\* handle_command_errors
handle_command_errors(outcome) ==
    try_except(ExceptClauses, outcome)

\* The exit status of the process: 1 from sys.exit(1); 0 when the command
\* returned; an exception that is no Exception ends the process with 1
process_exit(w) == IF w.exits \/ w.propagates # "none" THEN 1 ELSE 0

----------------------------------------------------------------------------
(* commands/init.py, commands/run.py, commands/chat.py and                 *)
(* commands/sessions.py: the bodies of the subcommands.  A console message *)
(* is its style and its text; each body is given f, the exception its      *)
(* first call outside the program raises (NoFault: none).                  *)

Msg(style, text) == [style |-> style, text |-> text]

Returns(msgs, files) ==
    [console |-> msgs, raises |-> NoFault, result |-> "None", created |-> files]
Raises(msgs, e, files) ==
    [console |-> msgs, raises |-> e, result |-> "no return", created |-> files]

\* str.strip() for the blank
RECURSIVE lstrip(_)
lstrip(s) == IF s # <<>> /\ Head(s) = " " THEN lstrip(Tail(s)) ELSE s
RECURSIVE rstrip(_)
rstrip(s) == IF s # <<>> /\ s[Len(s)] = " " THEN rstrip(SubSeq(s, 1, Len(s) - 1)) ELSE s
strip(s) == rstrip(lstrip(s))

\* PROVIDERS[provider]['api_key_env']
api_key_env(provider) ==
    IF provider = "openai" THEN <<"OPENAI_API_KEY">> ELSE <<"NEBIUS_API_KEY">>

\* init: h is what it finds (config.json, the template of the provider) and
\* what the user answers (the provider selected, whether to use the key of
\* the environment, the key typed); click.prompt returns no empty answer
init(args, h, f) ==
    LET provider == IF args.provider = "" THEN h.selected ELSE args.provider
        existing_api_key == environ_get(api_key_env(provider), <<>>)
        use_existing == existing_api_key # <<>> /\ h.use_existing
        api_key == IF args.api_key # <<>> THEN args.api_key
                   ELSE IF use_existing THEN existing_api_key ELSE h.typed
        begin == <<Msg("green", "Created directory")>>
                 \o (IF args.provider = "" THEN <<Msg("bold", "Available AI Providers")>>
                     ELSE <<>>)
                 \o <<Msg("green", "Initializing with")>>
        setup == IF args.api_key # <<>> THEN <<>>
                 ELSE <<Msg("blue", "API Key Setup")>>
                      \o (IF existing_api_key # <<>>
                          THEN <<Msg("yellow", "Found existing key in environment")>>
                          ELSE <<>>)
                      \o (IF use_existing
                          THEN <<Msg("green", "Using existing API key from environment")>>
                          ELSE <<>>)
        copied == begin \o <<Msg("green", "Created config file")>> \o setup
    IN  IF h.config_exists /\ ~args.force
        THEN Returns(<<Msg("yellow", "Xerus is already initialized"),
                       Msg("green", "Use --force to overwrite existing configuration"),
                       Msg("blue", "Current config")>>, {})
        ELSE IF f # NoFault THEN Raises(<<>>, f, {})
        ELSE IF ~h.template_exists
        THEN Returns(begin \o <<Msg("red", "Error: Template not found")>>, {})
        ELSE IF api_key = <<>> \/ strip(api_key) = <<>>
        THEN Returns(copied \o <<Msg("red", "Error: API key cannot be empty")>>,
                     {"config.json"})
        ELSE Returns(copied \o <<Msg("green", "Created environment file"),
                                 Msg("green", "API key configured"),
                                 Msg("blue", "Setup Complete!")>>,
                     {"config.json", ".env"})

\* run: the agent is set up and run; the session is then to be saved, but
\* the parameter save_session (always True) hides the function of that
\* name, and the TypeError of calling it becomes a warning
run(f) ==
    IF f # NoFault THEN Raises(<<>>, f, {})
    ELSE Returns(<<Msg("yellow", "Warning: Could not save session")>>, {})

\* chat: the agent is set up; the loop then keeps its errors to itself and
\* ends by a return
chat(f) ==
    IF f # NoFault THEN Raises(<<>>, f, {})
    ELSE Returns(<<Msg("blue", "Interactive Chat Mode")>>, {})

\* What the listing prints for one file
list_entry(doc) ==
    IF doc = Garbage \/ doc.t # "jobject" THEN Msg("yellow", "Error reading")
    ELSE Msg("plain", "session")

\* The files of a directory, the latest first
RECURSIVE sorted(_)
sorted(files) ==
    IF files = {} THEN <<>>
    ELSE LET latest == CHOOSE g \in files : \A k \in files : k.stamp <= g.stamp
         IN  <<latest>> \o sorted(files \ {latest})

\* list_sessions_command
list_sessions_command(dir, f) ==
    IF f # NoFault THEN Raises(<<>>, f, {})
    ELSE IF DOMAIN dir = {} THEN Returns(<<Msg("yellow", "No saved sessions found.")>>, {})
    ELSE LET sessions == sorted(DOMAIN dir)
         IN  Returns(<<Msg("blue", "Saved Sessions:")>>
                     \o [i \in 1..Len(sessions) |-> list_entry(dir[sessions[i]])], {})

\* The --session option: none, or what names a file: its path, its file
\* name, its file name without .json, or a part of its name
NoSession == [kind |-> "none", name |-> "", stamp |-> -1]
Session(kind, file) == [kind |-> kind, name |-> file.name, stamp |-> file.stamp]

\* session_dir.glob(f"*{session}*.json")
glob(dir, session) ==
    IF session.kind = "part" THEN {g \in DOMAIN dir : g.name = session.name} ELSE {}

\* The session file the option resolves to: os.path.isfile, the exact name,
\* the name with .json, then the glob
session_path(dir, session) ==
    LET named == [name |-> session.name, stamp |-> session.stamp]
        matches == glob(dir, session)
    IN  IF session.kind \in {"path", "file", "stem"} /\ named \in DOMAIN dir
        THEN [path |-> named, many |-> FALSE]
        ELSE IF Cardinality(matches) = 1
        THEN [path |-> CHOOSE g \in matches : TRUE, many |-> FALSE]
        ELSE [path |-> NoFile, many |-> Cardinality(matches) > 1]

\* load_session_command
load_session_command(args, dir, f) ==
    IF args.session = NoSession
    THEN Returns(<<Msg("red", "Error: No session file specified.")>>, {})
    ELSE IF f # NoFault THEN Raises(<<>>, f, {})
    ELSE LET p == session_path(dir, args.session)
             r == load_session(read(dir, p.path))
             loading == <<Msg("green", "Loading session")>>
         IN  IF p.many
             THEN Returns(<<Msg("yellow", "Multiple matching sessions found:"),
                            Msg("yellow", "Please specify a more precise name.")>>, {})
             ELSE IF p.path = NoFile THEN Returns(<<Msg("red", "Session file not found.")>>, {})
             ELSE IF r.raised # "none"
             THEN Raises(loading, [class |-> r.raised, hint |-> ""], {})
             ELSE IF r.value.t # "dict"
             THEN Raises(loading, [class |-> "AttributeError", hint |-> ""], {})
             ELSE Returns(loading
                          \o (IF truthy(item(r.value, "metadata"))
                              THEN <<Msg("blue", "Session Info:")>> ELSE <<>>)
                          \o <<Msg("blue", "Conversation:")>>, {})

----------------------------------------------------------------------------
(* commands/sessions.py and cli.py: how load resolves its session option.   *)
(* A name is the sequence of its chunks, ".json" being one chunk; a         *)
(* resolution is the path taken (in the sessions directory or as given),    *)
(* the candidates listed and the message printed.                           *)

NoPath == [at |-> "nowhere", name |-> <<>>]

NoResolution == [path |-> NoPath, listed |-> {}, message |-> ""]

isfile(files, path) == path \in files

exists(names, name) == name \in names

\* fnmatch of a file name against f"*{session}*.json"
fnmatch(name, pattern_session) ==
    /\ Len(name) >= Len(pattern_session) + 1
    /\ name[Len(name)] = ".json"
    /\ \E i \in 0..(Len(name) - 1 - Len(pattern_session)) :
          SubSeq(name, i + 1, i + Len(pattern_session)) = pattern_session

\* session_dir.glob(f"*{session}*.json")
glob_matches(names, pattern_session) == {n \in names : fnmatch(n, pattern_session)}

\* The glob is asked before the exact names
resolve_session_GlobFirst(option, files, names) ==
    LET matches == glob_matches(names, option)
    IN  IF isfile(files, option)
        THEN [path |-> [at |-> "given", name |-> option], listed |-> {},
              message |-> "Loading session"]
        ELSE IF Cardinality(matches) = 1
        THEN [path |-> [at |-> "sessions", name |-> CHOOSE n \in matches : TRUE],
              listed |-> {}, message |-> "Loading session"]
        ELSE IF Cardinality(matches) > 1
        THEN [path |-> NoPath, listed |-> matches,
              message |-> "Multiple matching sessions found:"]
        ELSE IF exists(names, option)
        THEN [path |-> [at |-> "sessions", name |-> option], listed |-> {},
              message |-> "Loading session"]
        ELSE IF exists(names, option \o <<".json">>)
        THEN [path |-> [at |-> "sessions", name |-> option \o <<".json">>], listed |-> {},
              message |-> "Loading session"]
        ELSE [path |-> NoPath, listed |-> {}, message |-> "Session file not found."]

\* The resolution of load_session_command, from os.path.isfile to the message
resolve_session(option, files, names) ==
    LET matches == glob_matches(names, option)
    IN  IF isfile(files, option)
        THEN [path |-> [at |-> "given", name |-> option], listed |-> {},
              message |-> "Loading session"]
        ELSE IF exists(names, option)
        THEN [path |-> [at |-> "sessions", name |-> option], listed |-> {},
              message |-> "Loading session"]
        ELSE IF exists(names, option \o <<".json">>)
        THEN [path |-> [at |-> "sessions", name |-> option \o <<".json">>], listed |-> {},
              message |-> "Loading session"]
        ELSE IF Cardinality(matches) = 1
        THEN [path |-> [at |-> "sessions", name |-> CHOOSE n \in matches : TRUE],
              listed |-> {}, message |-> "Loading session"]
        ELSE IF Cardinality(matches) > 1
        THEN [path |-> NoPath, listed |-> matches,
              message |-> "Multiple matching sessions found:"]
        ELSE [path |-> NoPath, listed |-> {}, message |-> "Session file not found."]

----------------------------------------------------------------------------
(* commands/init.py: the credentials file.  A file mode is the set of its   *)
(* permission bits; open(path, 'w') creates a missing file with the bits    *)
(* 0666 that the umask of the process leaves, and keeps the mode of a file  *)
(* that is there.                                                           *)

PermissionBits == {"S_IRUSR", "S_IWUSR", "S_IRGRP", "S_IWGRP", "S_IROTH", "S_IWOTH"}

NoMode == {"absent"}

open_w_mode(mode, mask) == IF mode = NoMode THEN PermissionBits \ mask ELSE mode

open_w_raises(mode) == mode # NoMode /\ "S_IWUSR" \notin mode

ChmodMode == {"S_IRUSR", "S_IWUSR"}

CreatedEnvFile == "Created environment file"

PermissionWarning == "Warning: Could not set secure permissions"

SetupComplete ==
    <<"API key configured", "Setup Complete!", "Configuration files created",
      "API key configured with secure permissions", "Xerus initialized successfully">>

----------------------------------------------------------------------------
(* Inputs of the substitution                                              *)

Pieces == {<<"$", "{">>, <<"}">>, <<":">>, <<"A">>, <<"x">>, <<"$">>}

BoundedStrings == {Flatten(ps) : ps \in SeqsUpTo(Pieces, MaxPieces)}

S_A       == <<"$", "{", "A", "}">>
S_AdefX   == <<"$", "{", "A", ":", "x", "}">>

\* Longer strings: several placeholders, text around them, a default holding
\* a colon, a name that is never set.
SampleStrings == {
    <<"x">> \o S_A \o <<"x">> \o S_AdefX \o <<"x">>,
    S_A \o S_A \o S_A,
    <<"$", "{", "x", ":", "A", ":", "x", "}">> \o S_A,
    <<"$", "{", "A", "x", "}">> \o <<"x", "$">> \o S_AdefX,
    <<"$", "{">> \o S_A \o <<"}">> }

\* The process environment: A is unset, empty, plain, or itself a placeholder.
Environments ==
    {<<>>} \cup {[n \in {<<"A">>} |-> val] : val \in {<<>>, <<"x">>, <<"A", ":">>, S_AdefX}}

LeafStrings == {S_A, <<"x">>, <<"$", "{", "x", ":", "x", "}">>}
Keys == {<<"k">>, S_A}
Leaves == {Str(s) : s \in LeafStrings} \cup {Num(1), Bool(TRUE), Null}

DictsOver(S) ==
    {Dict(ps) : ps \in {qs \in SeqsUpTo(Keys \X S, MaxWidth) :
                            \A i, j \in 1..Len(qs) : i # j => qs[i][1] # qs[j][1]}}
ListsOver(S) == {List(xs) : xs \in SeqsUpTo(S, MaxWidth)}

Level1 == ListsOver(Leaves) \cup DictsOver(Leaves)
\* Deeper trees hold one container, alone, beside a leaf, or under a key.
Wrap(S) ==
    {List(<<c>>) : c \in S} \cup {List(<<l, c>>) : l \in {Str(S_A), Num(1)}, c \in S}
    \cup {Dict(<< <<k, c>> >>) : k \in Keys, c \in S}
Level2 == Wrap(Level1)
Level3 == Wrap({c \in Level2 : Len(c.v) = 1})

StringInputs == {Str(s) : s \in BoundedStrings \cup SampleStrings}
TreeInputs == Leaves \cup Level1 \cup Level2 \cup Level3

----------------------------------------------------------------------------
(* tools/manager.py: ToolManager.  A tool specification is the sequence of *)
(* its chunks: ":" and the colon-free texts between the colons.            *)

HF_TOKEN == <<"H", "F", "_", "T", "O", "K", "E", "N">>

BuiltInNames == {"web_search", "python_interpreter", "final_answer", "user_input",
                 "duckduckgo_search", "visit_webpage"}

Tool(name, origin) == [name |-> name, origin |-> origin]

\* ToolManager._register_built_in_tools
register_built_in_tools == [n \in BuiltInNames |-> Tool(n, "built_in")]

\* str.lower() of a chunk
lower(c) ==
    CASE c = "HUB" -> "hub"
      [] c = "Space" -> "space"
      [] OTHER -> c

\* str.endswith(".py") of a chunk
PyChunks == {"./t.py", "./gone.py"}
endswith_py(s) == s # <<>> /\ s[Len(s)] \in PyChunks

\* str.split(":", maxsplit)
RECURSIVE split(_, _)
split(s, maxsplit) ==
    LET c == FirstIn(s, 1, {":"})
    IN  IF maxsplit = 0 \/ c > Len(s) THEN <<s>>
        ELSE <<SubSeq(s, 1, c - 1)>> \o split(SubSeq(s, c + 1, Len(s)), maxsplit - 1)

\* membership of a whole string in a set of chunks (registry keys, paths)
Among(s, S) == Len(s) = 1 /\ s[1] \in S

\* A plausible slip: a .py path is taken for a local tool whether or not the file exists.
parse_tool_spec_NoExists(spec) ==
    IF \A k \in 1..Len(spec) : spec[k] # ":"
    THEN IF Among(spec, DOMAIN tools) THEN [type |-> "built_in", name |-> spec]
         ELSE IF endswith_py(spec) THEN [type |-> "local", path |-> spec]
         ELSE [type |-> "unknown", spec |-> spec]
    ELSE LET parts  == split(spec, 2)
             prefix == IF parts[1] = <<>> THEN "" ELSE lower(parts[1][1])
         IN  IF prefix = "hub" /\ Len(parts) >= 2 THEN [type |-> "hub", repo_id |-> parts[2]]
             ELSE IF prefix = "space" /\ Len(parts) >= 2
                  THEN IF Len(parts) >= 3
                       THEN LET name_desc == split(parts[3], 1)
                            IN  IF Len(name_desc) > 1
                                THEN [type |-> "space", space_id |-> parts[2],
                                      name |-> name_desc[1], description |-> name_desc[2]]
                                ELSE [type |-> "space", space_id |-> parts[2],
                                      name |-> name_desc[1]]
                       ELSE [type |-> "space", space_id |-> parts[2]]
             ELSE IF prefix = "collection" /\ Len(parts) >= 2
                  THEN [type |-> "collection", slug |-> parts[2]]
             ELSE [type |-> "unknown", spec |-> spec]

\* ToolManager.parse_tool_spec
parse_tool_spec(spec) ==
    IF \A k \in 1..Len(spec) : spec[k] # ":"
    THEN IF Among(spec, DOMAIN tools) THEN [type |-> "built_in", name |-> spec]
         ELSE IF Among(spec, fs) /\ endswith_py(spec) THEN [type |-> "local", path |-> spec]
         ELSE [type |-> "unknown", spec |-> spec]
    ELSE LET parts  == split(spec, 2)
             prefix == IF parts[1] = <<>> THEN "" ELSE lower(parts[1][1])
         IN  IF prefix = "hub" /\ Len(parts) >= 2 THEN [type |-> "hub", repo_id |-> parts[2]]
             ELSE IF prefix = "space" /\ Len(parts) >= 2
                  THEN IF Len(parts) >= 3
                       THEN LET name_desc == split(parts[3], 1)
                            IN  IF Len(name_desc) > 1
                                THEN [type |-> "space", space_id |-> parts[2],
                                      name |-> name_desc[1], description |-> name_desc[2]]
                                ELSE [type |-> "space", space_id |-> parts[2],
                                      name |-> name_desc[1]]
                       ELSE [type |-> "space", space_id |-> parts[2]]
             ELSE IF prefix = "collection" /\ Len(parts) >= 2
                  THEN [type |-> "collection", slug |-> parts[2]]
             ELSE [type |-> "unknown", spec |-> spec]

\* dict.get(key): None is the empty string here
get(d, key) == IF key \in DOMAIN d THEN d[key] ELSE <<>>

(* The loaders.  Each returns what its load() did: the remote fetches it   *)
(* made, the exception it raised ("none": it returned), the exception that *)
(* was wrapped into it, and the tools it returned.  out is what the file   *)
(* or the remote side holds: [fails, names].                               *)

Loaded(remote, names, origin) ==
    [remote |-> remote, raised |-> "none", cause |-> "none",
     tools |-> [i \in 1..Len(names) |-> Tool(names[i], origin)]]
Failed(remote, error, cause) ==
    [remote |-> remote, raised |-> error, cause |-> cause, tools |-> <<>>]

\* BuiltInToolLoader.load
BuiltInToolLoader_load(spec) ==
    IF ~Among(spec, DOMAIN tools) THEN Failed(<<>>, "ToolLoadError", "none")
    ELSE [remote |-> <<>>, raised |-> "none", cause |-> "none", tools |-> <<tools[spec[1]]>>]

\* LocalFileToolLoader.load: exec_module may raise; a module without Tool
\* instances is a ToolLoadError
LocalFileToolLoader_load(spec, out) ==
    IF out.fails THEN Failed(<<>>, "ToolLoadError", "Exception")
    ELSE IF out.names = <<>> THEN Failed(<<>>, "ToolLoadError", "none")
    ELSE Loaded(<<>>, out.names, "local")

\* HubToolLoader.load: the AuthenticationError is raised inside the try whose
\* except Exception wraps everything into ToolLoadError
HubToolLoader_load(spec, out) ==
    IF environ_get(HF_TOKEN, <<>>) = <<>>
    THEN Failed(<<>>, "ToolLoadError", "AuthenticationError")
    ELSE IF out.fails \/ out.names = <<>>
         THEN Failed(<<"load_tool">>, "ToolLoadError", "Exception")
         ELSE Loaded(<<"load_tool">>, <<out.names[1]>>, "hub")

\* SpaceToolLoader.load: the tool is named as asked, "space_tool" by default
SpaceToolLoader_load(spec, name, description, out) ==
    IF environ_get(HF_TOKEN, <<>>) = <<>>
    THEN Failed(<<>>, "ToolLoadError", "AuthenticationError")
    ELSE IF out.fails
         THEN Failed(<<"Tool.from_space">>, "ToolLoadError", "Exception")
         ELSE Loaded(<<"Tool.from_space">>,
                     <<IF name = <<>> THEN "space_tool" ELSE name[1]>>, "space")

\* CollectionToolLoader.load: ToolLoadError passes through, the rest is wrapped
CollectionToolLoader_load(spec, out) ==
    IF environ_get(HF_TOKEN, <<>>) = <<>>
    THEN Failed(<<>>, "ToolLoadError", "AuthenticationError")
    ELSE IF out.fails
         THEN Failed(<<"ToolCollection.from_hub">>, "ToolLoadError", "Exception")
         ELSE IF out.names = <<>>
              THEN Failed(<<"ToolCollection.from_hub">>, "ToolLoadError", "none")
              ELSE Loaded(<<"ToolCollection.from_hub">>, out.names, "collection")

Call(loader, spec) == [loader |-> loader, spec |-> spec]

\* What one load_tool_from_spec does: the loader calls, the loader's result,
\* and the tools handed to register_tool (load_from_local_file, load_from_hub,
\* load_from_space, load_from_collection register what their loader returned;
\* the built-in loader registers nothing).
Effect(calls, r, registers) ==
    [calls |-> calls, remote |-> r.remote, raised |-> r.raised, cause |-> r.cause,
     registered |-> IF registers THEN r.tools ELSE <<>>]

UnknownSpecError ==
    Effect(<<>>, Failed(<<>>, "ToolLoadError", "none"), FALSE)

\* A plausible slip: a specification of no known form is tried as a local file.
load_tool_from_spec_Fallback(spec, out) ==
    LET p == parse_tool_spec(spec)
    IN  CASE p.type = "built_in" ->
               Effect(<<Call("built_in", p.name)>>, BuiltInToolLoader_load(p.name), FALSE)
          [] p.type = "hub" ->
               Effect(<<Call("hub", p.repo_id)>>, HubToolLoader_load(p.repo_id, out), TRUE)
          [] p.type = "space" ->
               Effect(<<Call("space", p.space_id)>>,
                      SpaceToolLoader_load(p.space_id, get(p, "name"),
                                           get(p, "description"), out), TRUE)
          [] p.type = "collection" ->
               Effect(<<Call("collection", p.slug)>>,
                      CollectionToolLoader_load(p.slug, out), TRUE)
          [] OTHER ->
               Effect(<<Call("local", spec)>>, LocalFileToolLoader_load(spec, out), TRUE)

\* ToolManager.load_tool_from_spec
load_tool_from_spec(spec, out) ==
    LET p == parse_tool_spec(spec)
    IN  CASE p.type = "built_in" ->
               Effect(<<Call("built_in", p.name)>>, BuiltInToolLoader_load(p.name), FALSE)
          [] p.type = "local" ->
               Effect(<<Call("local", p.path)>>, LocalFileToolLoader_load(p.path, out), TRUE)
          [] p.type = "hub" ->
               Effect(<<Call("hub", p.repo_id)>>, HubToolLoader_load(p.repo_id, out), TRUE)
          [] p.type = "space" ->
               Effect(<<Call("space", p.space_id)>>,
                      SpaceToolLoader_load(p.space_id, get(p, "name"),
                                           get(p, "description"), out), TRUE)
          [] p.type = "collection" ->
               Effect(<<Call("collection", p.slug)>>,
                      CollectionToolLoader_load(p.slug, out), TRUE)
          [] OTHER -> UnknownSpecError

\* ToolManager.register_tool for each tool of ts, in order
RECURSIVE register_all(_, _)
register_all(reg, ts) ==
    IF ts = <<>> THEN reg
    ELSE register_all([n \in DOMAIN reg \cup {Head(ts).name} |->
                          IF n = Head(ts).name THEN Head(ts) ELSE reg[n]], Tail(ts))

----------------------------------------------------------------------------
(* Inputs of the tool manager                                              *)

TextChunks == {"web_search", "./t.py", "./gone.py", "notes.txt", "hub", "HUB",
               "space", "collection", "org/name", "n"}
Chunks == TextChunks \cup {":"}

\* No string has two texts side by side: they would be one text.
IsSpec(s) == \A k \in 1..(Len(s) - 1) : s[k] = ":" \/ s[k + 1] = ":"

BoundedSpecs == {s \in SeqsUpTo(Chunks, MaxSpecChunks) : IsSpec(s)}

SampleSpecs == {
    <<"space", ":", "org/name", ":", "n">>,
    <<"space", ":", "org/name", ":", "n", ":", "notes.txt">>,
    <<"space", ":", "org/name", ":", "n", ":", "notes.txt", ":", "n">>,
    <<"hub", ":", "org/name", ":", "n">>,
    <<"collection", ":", "org/name", ":", "n", ":", "n">>,
    <<"n", ":", "org/name", ":", "./t.py">> }

ToolSpecs == BoundedSpecs \cup SampleSpecs

\* What a file or a remote repository holds.
Outcomes ==
    {[fails |-> TRUE, names |-> <<>>]} \cup
    {[fails |-> FALSE, names |-> ns] :
        ns \in {<<>>, <<"hello_tool">>, <<"hello_tool", "web_search">>}}

\* The registry of a ToolManager: as constructed, or after earlier loads.
Registries == {
    register_built_in_tools,
    register_all(register_built_in_tools, <<Tool("n", "space")>>),
    register_all(register_built_in_tools, <<Tool("hello_tool", "local"), Tool("./gone.py", "hub")>>) }

ToolEnvironments ==
    {<<>>} \cup {[n \in {HF_TOKEN} |-> val] : val \in {<<>>, <<"x">>}}

----------------------------------------------------------------------------
(* Inputs of the session files                                             *)

Entry(role, content) == Dict(<< <<Str("role"), Str(role)>>, <<Str("content"), content>> >>)

\* A prompt, a reply, and replies json changes (a tuple) or refuses (an object).
Entries == {Entry("user", Str("q")), Entry("assistant", Str("a")),
            Entry("assistant", Tuple(<<Num(1)>>)), Entry("assistant", Obj)}

Histories == {List(h) : h \in SeqsUpTo(Entries, MaxEntries)}

\* None stands for the call that passes no metadata.
SessionFiles == {create_session_file("s", 0)}

Metadatas == {Null, Dict(<<>>),
              Dict(<< <<Str("model_id"), Str("m")>> >>),
              Dict(<< <<Str("model_id"), Null>> >>),
              Dict(<< <<Str("model_id"), List(<<Str("m"), Bool(TRUE)>>)>>, <<Str("n"), Num(0)>> >>),
              Dict(<< <<Num(1), Str("m")>> >>)}

----------------------------------------------------------------------------
(* Inputs of the chats                                                     *)

\* The history an earlier chat left after n entries
Earlier(n) ==
    [i \in 1..n |-> Entry(IF i % 2 = 1 THEN "user" ELSE "assistant", Str(<<"earlier", i>>))]

\* ~/.xerus/history.json before the first chat: not there, or written by
\* earlier chats that came close to the cap or reached it
HistoryFiles ==
    {Absent} \cup {save_conversation_history(Earlier(n)).file : n \in {HistoryCap - 2, HistoryCap}}

SessionNames == {"", "s"}

----------------------------------------------------------------------------
(* Inputs of the configuration and of the assembly                        *)

JStr(s) == JString(<<s>>)

ManagerFull  == JObject(<< <<"model_id", JStr("m")>>, <<"api_key", JString(S_A)>>,
                           <<"name", JStr("boss")>> >>)
ManagerNoKey == JObject(<< <<"model_id", JStr("m")>>, <<"name", JStr("boss")>> >>)

\* Three tools: a full entry, one with parameters, one without tool_class
ToolsSection ==
    JObject(<< <<"web",  JObject(<< <<"tool_class", JStr("pkg.Web")>>, <<"model_id", JStr("m")>>,
                                    <<"api_key", JString(S_AdefX)>> >>)>>,
               <<"calc", JObject(<< <<"tool_class", JStr("pkg.Calc")>>,
                                    <<"parameters", JObject(<< <<"n", JNumber(1)>> >>)>>,
                                    <<"model_id", JStr("m2")>> >>)>>,
               <<"note", JObject(<< <<"name", JStr("note")>> >>)>> >>)

\* Four servers: plain, with an underscore in the name and a model of its
\* own, commented out by its name, and disabled
McpSection ==
    JObject(<< <<<<"fs">>, JObject(<< <<"command", JStr("npx")>> >>)>>,
               <<<<"my", "_", "srv">>, JObject(<< <<"transport", JStr("streamable-http")>>,
                                                 <<"url", JStr("http://h")>>,
                                                 <<"model_id", JStr("m2")>>,
                                                 <<"api_key", JStr("k")>> >>)>>,
               <<<<"_", "old">>, JObject(<< <<"command", JStr("npx")>> >>)>>,
               <<<<"off">>, JObject(<< <<"command", JStr("npx")>>, <<"_disabled", JBool(TRUE)>> >>)>> >>)

ConfigDocs ==
    {JObject(<<>>),
     JObject(<< <<"tools", ToolsSection>> >>),
     JObject(<< <<"tools", ToolsSection>>, <<"mcpServers", McpSection>> >>),
     JObject(<< <<"manager_agent", JObject(<<>>)>>, <<"tools", ToolsSection>>,
                <<"mcpServers", McpSection>> >>),
     JObject(<< <<"manager_agent", JNull>>, <<"tools", ToolsSection>> >>),
     JObject(<< <<"manager_agent", ManagerFull>> >>),
     JObject(<< <<"manager_agent", ManagerFull>>, <<"tools", ToolsSection>> >>),
     JObject(<< <<"manager_agent", ManagerFull>>, <<"tools", ToolsSection>>,
                <<"mcpServers", McpSection>> >>),
     JObject(<< <<"manager_agent", ManagerNoKey>>, <<"tools", ToolsSection>>,
                <<"mcpServers", McpSection>> >>)}

ConfigFiles == {Absent, Unreadable, Garbage} \cup ConfigDocs

\* The template of the package: a manager agent whose key is a placeholder
TemplateDoc == JObject(<< <<"manager_agent", ManagerFull>> >>)
TemplateFiles == {Absent, Unreadable, TemplateDoc}

EnvFiles == {Absent, Unreadable, EnvDoc([n \in {<<"A">>} |-> <<"k">>])}

ProcessEnvironments == {<<>>, [n \in {<<"A">>} |-> <<"x">>]}

ToolClasses == {<<"pkg.Web">>, <<"pkg.Calc">>}
ServerNames == {<<"fs">>, <<"my", "_", "srv">>, <<"_", "old">>, <<"off">>}
Up(names) == [down |-> FALSE, names |-> names]
Down == [down |-> TRUE, names |-> <<>>]

\* Outside the program: everything works; a constructor rejects the
\* parameters and a server is down; a class is missing, a constructor fails
\* altogether and a model cannot be initialized; a constructor raises what
\* is no TypeError, with a model missing and with every model there; the
\* model of one tool alone cannot be initialized
Worlds ==
    {[importable |-> ToolClasses,
      ctor |-> [c \in ToolClasses |-> "ok"],
      ctor0 |-> [c \in ToolClasses |-> "ok"],
      servers |-> [s \in ServerNames |-> Up(<< <<"read">>, <<"list", "_", "dir">> >>)],
      badModels |-> {}],
     [importable |-> ToolClasses,
      ctor |-> [c \in ToolClasses |-> IF c = <<"pkg.Calc">> THEN "TypeError" ELSE "ok"],
      ctor0 |-> [c \in ToolClasses |-> "ok"],
      servers |-> [s \in ServerNames |-> IF s = <<"fs">> THEN Down ELSE Up(<< <<"read">> >>)],
      badModels |-> {}],
     [importable |-> {<<"pkg.Calc">>},
      ctor |-> [c \in ToolClasses |-> "TypeError"],
      ctor0 |-> [c \in ToolClasses |-> "RuntimeError"],
      servers |-> [s \in ServerNames |-> Up(<< <<"read">> >>)],
      badModels |-> {Str(<<"m2">>)}],
     [importable |-> ToolClasses,
      ctor |-> [c \in ToolClasses |-> IF c = <<"pkg.Calc">> THEN "RuntimeError" ELSE "ok"],
      ctor0 |-> [c \in ToolClasses |-> "ok"],
      servers |-> [s \in ServerNames |-> Down],
      badModels |-> {Str(<<"m">>)}],
     [importable |-> ToolClasses,
      ctor |-> [c \in ToolClasses |-> IF c = <<"pkg.Calc">> THEN "ValueError" ELSE "ok"],
      ctor0 |-> [c \in ToolClasses |-> "ok"],
      servers |-> [s \in ServerNames |-> Up(<< <<"read">> >>)],
      badModels |-> {}],
     [importable |-> ToolClasses,
      ctor |-> [c \in ToolClasses |-> "ok"],
      ctor0 |-> [c \in ToolClasses |-> "ok"],
      servers |-> [s \in ServerNames |-> Up(<< <<"read">> >>)],
      badModels |-> {Str(<<"m2">>)}]}

----------------------------------------------------------------------------
(* Inputs of the subcommands                                               *)

NoCommand == [command |-> "", session |-> NoSession, provider |-> "", api_key |-> <<>>,
              force |-> FALSE]
NoHome == [config_exists |-> FALSE, template_exists |-> TRUE, selected |-> "",
           use_existing |-> FALSE, typed |-> <<>>]

\* Session files: two of one session name, a second apart
Saved(n) == create_session_file("s", n)

\* What a session file holds: a session as chat saves it, one saved without
\* metadata, a document that is no mapping, or what json cannot parse
SessionDocs ==
    {save_session(List(Earlier(2)), ChatMetadata, 0).file,
     save_session(List(<<>>), Null, 0).file,
     JArray(<<>>), Garbage}

\* ~/.xerus/sessions: empty, one file, or two files
SessionDirs ==
    {NoFiles}
    \cup {write(NoFiles, Saved(0), d) : d \in SessionDocs}
    \cup {write(write(NoFiles, Saved(0), d), Saved(1), e) : d, e \in SessionDocs}

\* The --session option: not given, the name of the sessions, another name,
\* or the first file by its path, by its name, by its name without .json
SessionOptions ==
    {NoSession, [kind |-> "part", name |-> "s", stamp |-> -1],
     [kind |-> "part", name |-> "t", stamp |-> -1]}
    \cup {Session(k, Saved(0)) : k \in {"path", "file", "stem"}}

\* The API keys: not given (or ""), a key, a blank
ApiKeys == {<<>>, <<"k">>, <<" ">>}

CommandLines ==
    {[NoCommand EXCEPT !.command = c] : c \in {"run", "chat", "sessions"}}
    \cup {[NoCommand EXCEPT !.command = "load", !.session = s] : s \in SessionOptions}
    \cup {[NoCommand EXCEPT !.command = "init", !.provider = p, !.api_key = k, !.force = b] :
            p \in {"", "nebius"}, k \in ApiKeys, b \in BOOLEAN}

Homes ==
    [config_exists : BOOLEAN, template_exists : BOOLEAN, selected : {"openai"},
     use_existing : BOOLEAN, typed : ApiKeys \ {<<>>}]

\* os.environ of init: with or without the key of a provider
InitEnvironments == {<<>>, [n \in {<<"NEBIUS_API_KEY">>} |-> <<"e">>]}

\* What the agent, the model and the tools raise in run and chat: any class
\* of errors.py with or without a hint, exceptions of Python, click's Abort
\* and Ctrl+C
AgentFaults ==
    {[class |-> c, hint |-> h] : c \in XerusClasses \ {"APILimitError"},
                                 h \in {"", "Check the model id"}}
    \cup {[class |-> "APILimitError", hint |-> APILimitHint]}
    \cup {[class |-> c, hint |-> ""] : c \in OtherClasses}

\* What mkdir raises in the other commands, and Ctrl+C
DiskFaults == {[class |-> c, hint |-> ""] : c \in {"PermissionError", "KeyboardInterrupt"}}

Faults(command) ==
    {NoFault} \cup (IF command \in {"run", "chat"} THEN AgentFaults ELSE DiskFaults)

----------------------------------------------------------------------------
(* Each subsystem at rest, for the specifications of the others           *)

SubstIdle ==
    /\ value = Null
    /\ results = <<>>
    /\ substPc = "idle"

ToolsIdle ==
    /\ fs = {}
    /\ tools = register_built_in_tools
    /\ tool_spec = <<>>
    /\ parsed = [type |-> "none"]
    /\ loaderCalls = <<>>
    /\ remoteCalls = <<>>
    /\ registered = <<>>
    /\ raised = "none"
    /\ toolPc = "off"

StoreIdle ==
    /\ sessionDir = NoFiles
    /\ clock = 0

SessIdle ==
    /\ file_arg = NoFile
    /\ history_arg = Null
    /\ metadata_arg = Null
    /\ loaded = Null
    /\ sessRaised = "none"
    /\ sessPc = "off"

ChatIdle ==
    /\ historyFile = Absent
    /\ chatPc = "off"
    /\ chats = 0
    /\ inputs = 0
    /\ no_history = FALSE
    /\ session_name = ""
    /\ session_file = NoFile
    /\ history = <<>>
    /\ session_history = <<>>
    /\ agent_history = <<>>
    /\ chat_log = NoChatLog

CfgIdle ==
    /\ configFile = Absent
    /\ envFile = Absent
    /\ dotenv_available = FALSE
    /\ world = Null
    /\ config = Null
    /\ printed = <<>>
    /\ built = Nothing
    /\ cfgRaised = "none"
    /\ cfgPc = "off"
    /\ templateFile = Absent
    /\ xerus_dir = FALSE

AgentIdle ==
    /\ self_history = <<>>
    /\ successes = 0
    /\ last_run = NoRun
    /\ agent_calls = 0

CallIdle ==
    /\ called = ""
    /\ call_args = NoArgs
    /\ outside = Quiet_
    /\ call_result = NoCall
    /\ callPc = "off"

RaceIdle ==
    /\ disk = <<>>
    /\ mem = <<>>
    /\ racePc = <<>>
    /\ asked = <<>>
    /\ raced = <<>>
    /\ last_write = NoWrite

ResolveIdle ==
    /\ session_option = <<>>
    /\ cwd_files = {}
    /\ dir_names = {}
    /\ resolved = NoResolution
    /\ resolvePc = "off"

PermIdle ==
    /\ env_mode = NoMode
    /\ env_key = FALSE
    /\ umask = {}
    /\ chmod_raises = FALSE
    /\ said = <<>>
    /\ envPc = "off"

CliIdle ==
    /\ argv = NoCommand
    /\ home = NoHome
    /\ fault = NoFault
    /\ thrown = NoFault
    /\ console = <<>>
    /\ panels = <<>>
    /\ created = {}
    /\ returned = "no return"
    /\ exit_status = -1
    /\ cliPc = "off"

----------------------------------------------------------------------------
(* The substitution as a state machine: load_config calls it once on the   *)
(* parsed file; a second call on the result shows what a reload would do.  *)

SubstInit ==
    /\ environ \in Environments
    /\ value \in StringInputs \cup TreeInputs
    /\ results = <<>>
    /\ substPc = "start"
    /\ ToolsIdle
    /\ StoreIdle
    /\ SessIdle
    /\ ChatIdle
    /\ CfgIdle
    /\ CliIdle
    /\ PermIdle
    /\ ResolveIdle
    /\ RaceIdle
    /\ CallIdle
    /\ AgentIdle

Substitute ==
    /\ substPc = "start"
    /\ results' = <<substitute_env_vars(value)>>
    /\ substPc' = "once"
    /\ UNCHANGED <<environ, value, NotSubst>>

SubstituteAgain ==
    /\ substPc = "once"
    /\ results' = Append(results, substitute_env_vars(results[1]))
    /\ substPc' = "twice"
    /\ UNCHANGED <<environ, value, NotSubst>>

SubstNext == Substitute \/ SubstituteAgain

SpecSubst == SubstInit /\ [][SubstNext]_vars

----------------------------------------------------------------------------
(* The tool manager as a state machine: one call on a manager              *)

ToolsInit ==
    /\ environ \in ToolEnvironments
    /\ fs \in {{}, {"./t.py", "notes.txt"}}
    /\ tools \in Registries
    /\ tool_spec \in ToolSpecs
    /\ parsed = [type |-> "none"]
    /\ loaderCalls = <<>>
    /\ remoteCalls = <<>>
    /\ registered = <<>>
    /\ raised = "none"
    /\ toolPc = "idle"
    /\ SubstIdle
    /\ StoreIdle
    /\ SessIdle
    /\ ChatIdle
    /\ CfgIdle
    /\ CliIdle
    /\ PermIdle
    /\ ResolveIdle
    /\ RaceIdle
    /\ CallIdle
    /\ AgentIdle

ParseToolSpec ==
    /\ toolPc = "idle"
    /\ parsed' = parse_tool_spec(tool_spec)
    /\ toolPc' = "parsed"
    /\ UNCHANGED <<environ, NotTools, fs, tools, tool_spec, loaderCalls,
                   remoteCalls, registered, raised>>

LoadToolFromSpec ==
    /\ toolPc = "idle"
    /\ \E out \in Outcomes :
         LET e == load_tool_from_spec(tool_spec, out)
         IN  /\ parsed' = parse_tool_spec(tool_spec)
             /\ loaderCalls' = e.calls
             /\ remoteCalls' = e.remote
             /\ raised' = e.raised
             /\ registered' = [i \in 1..Len(e.registered) |-> e.registered[i].name]
             /\ tools' = register_all(tools, e.registered)
    /\ toolPc' = "loaded"
    /\ UNCHANGED <<environ, NotTools, fs, tool_spec>>

ToolsNext == ParseToolSpec \/ LoadToolFromSpec

SpecTools == ToolsInit /\ [][ToolsNext]_vars

----------------------------------------------------------------------------
(* A session file as a state machine: it is saved, perhaps again, and read  *)

SessInit ==
    /\ environ = <<>>
    /\ StoreIdle
    /\ file_arg = NoFile
    /\ history_arg = Null
    /\ metadata_arg = Null
    /\ loaded = Null
    /\ sessRaised = "none"
    /\ sessPc = "idle"
    /\ SubstIdle
    /\ ToolsIdle
    /\ ChatIdle
    /\ CfgIdle
    /\ CliIdle
    /\ PermIdle
    /\ ResolveIdle
    /\ RaceIdle
    /\ CallIdle
    /\ AgentIdle

SaveSession ==
    /\ sessPc \in {"idle", "saved"}
    /\ clock < MaxSaves
    /\ \E file \in SessionFiles, h \in Histories, metadata \in Metadatas :
         LET w == save_session(h, metadata, clock + 1)
         IN  /\ sessionDir' = write(sessionDir, file, w.file)
             /\ sessRaised' = w.raised
             /\ file_arg' = file
             /\ history_arg' = h
             /\ metadata_arg' = metadata
    /\ clock' = clock + 1
    /\ sessPc' = "saved"
    /\ UNCHANGED <<environ, NotSess, loaded>>

LoadSession ==
    /\ sessPc \in {"idle", "saved"}
    /\ \E file \in SessionFiles :
         LET r == load_session(read(sessionDir, file))
         IN  /\ loaded' = r.value
             /\ sessRaised' = r.raised
             /\ file_arg' = file
    /\ sessPc' = "loaded"
    /\ UNCHANGED <<environ, NotSess, storeVars, history_arg, metadata_arg>>

SessNext == SaveSession \/ LoadSession

SpecSession == SessInit /\ [][SessNext]_vars

----------------------------------------------------------------------------
(* The chat command as a state machine: chats run one after the other,    *)
(* each a loop over the user's inputs (commands/chat.py).                  *)

ChatInitWith(log) ==
    /\ environ = <<>>
    /\ StoreIdle
    /\ historyFile \in HistoryFiles
    /\ chatPc = "closed"
    /\ chats = 0
    /\ inputs = 0
    /\ no_history = FALSE
    /\ session_name = ""
    /\ session_file = NoFile
    /\ history = <<>>
    /\ session_history = <<>>
    /\ agent_history = <<>>
    /\ chat_log = log
    /\ SubstIdle
    /\ ToolsIdle
    /\ SessIdle
    /\ CfgIdle
    /\ CliIdle
    /\ PermIdle
    /\ ResolveIdle
    /\ RaceIdle
    /\ CallIdle
    /\ AgentIdle

ChatInit == ChatInitWith(NoChatLog)

\* The same chats with the log kept
ChatLogInit == ChatInitWith(ChatLogOn)

\* chat(): the history is loaded unless --no-history, the session file is
\* named if --session-name is given.  The first chat starts at second 0, a
\* later one in the second of the chat before it or in the next.
ChatStart ==
    /\ chatPc = "closed"
    /\ chats < MaxChats
    /\ \E nh \in BOOLEAN, name \in SessionNames,
          now \in (IF chats = 0 THEN {clock} ELSE {clock, clock + 1}) :
         /\ clock' = now
         /\ no_history' = nh
         /\ session_name' = name
         /\ history' = IF nh THEN <<>> ELSE load_conversation_history(historyFile)
         /\ session_file' = IF name # "" THEN create_session_file(name, now) ELSE NoFile
    /\ session_history' = <<>>
    /\ agent_history' = <<>>
    /\ chat_log' = [NoChatLog EXCEPT !.on = chat_log.on, !.cleared = chat_log.cleared,
                                     !.saved_by = chat_log.saved_by]
    /\ chats' = chats + 1
    /\ chatPc' = "prompt"
    /\ UNCHANGED <<environ, NotChat, sessionDir, historyFile, inputs>>

\* A normal input and the agent's reply
ChatTurn ==
    /\ chatPc = "prompt"
    /\ inputs < MaxInputs
    /\ LET n == inputs + 1
           exchange == <<Entry("user", Text(n)), Entry("assistant", Reply(n))>>
       IN  /\ history' = history \o exchange
           /\ session_history' = session_history \o exchange
           /\ agent_history' = Append(agent_history, [user |-> Text(n), agent |-> Reply(n)])
           /\ inputs' = n
           /\ historyFile' = history_file_after_turn(no_history, historyFile,
                                                     history \o exchange)
    /\ chat_log' = [chat_log EXCEPT !.turns = IF chat_log.on THEN @ + 1 ELSE @]
    /\ UNCHANGED <<environ, NotChat, storeVars, chatPc, chats, no_history, session_name,
                   session_file>>

\* A normal input on which the agent raises: AgentRuntimeError is reported
\* and the loop goes on
ChatTurnFails ==
    /\ chatPc = "prompt"
    /\ inputs < MaxInputs
    /\ history' = Append(history, Entry("user", Text(inputs + 1)))
    /\ session_history' = Append(session_history, Entry("user", Text(inputs + 1)))
    /\ inputs' = inputs + 1
    /\ chat_log' = [chat_log EXCEPT !.turns = IF chat_log.on THEN @ + 1 ELSE @]
    /\ UNCHANGED <<environ, NotChat, storeVars, historyFile, chatPc, chats, no_history,
                   session_name, session_file, agent_history>>

\* Ctrl+C while the agent runs: the input is in both lists when
\* KeyboardInterrupt ends the loop, and the process with what it held in
\* memory
ChatInterrupt ==
    /\ chatPc = "prompt"
    /\ inputs < MaxInputs
    /\ history' = <<>>
    /\ session_history' = <<>>
    /\ agent_history' = <<>>
    /\ inputs' = inputs + 1
    /\ chat_log' = IF chat_log.on
                   THEN [chat_log EXCEPT !.turns = @ + 1, !.ended = "KeyboardInterrupt",
                                         !.final = Append(session_history,
                                                          Entry("user", Text(inputs + 1)))]
                   ELSE chat_log
    /\ chatPc' = "closed"
    /\ UNCHANGED <<environ, NotChat, storeVars, historyFile, chats, no_history,
                   session_name, session_file>>

\* "history": the entries are printed, nothing changes
ChatShowHistory ==
    /\ chatPc = "prompt"
    /\ UNCHANGED <<environ, NotChat, storeVars, historyFile, chatPc, chats, inputs,
                   no_history, session_name, session_file, history, session_history,
                   agent_history, chat_log>>

\* "clear"
ChatClear ==
    /\ chatPc = "prompt"
    /\ history' = <<>>
    /\ agent_history' = <<>>
    /\ session_history' = <<>>
    /\ chat_log' = IF chat_log.on
                   THEN [chat_log EXCEPT !.cleared = @ \cup {history[k] : k \in 1..Len(history)}]
                   ELSE chat_log
    /\ UNCHANGED <<environ, NotChat, storeVars, historyFile, chatPc, chats, inputs,
                   no_history, session_name, session_file>>

\* "save": the session goes to the session file, or to a new file
ChatSave ==
    /\ chatPc = "prompt"
    /\ IF session_history = <<>>
       THEN UNCHANGED <<sessionDir, chat_log>>
       ELSE LET save_file == IF session_file # NoFile THEN session_file
                             ELSE create_session_file(session_name, clock)
            IN  /\ sessionDir' = write(sessionDir, save_file,
                                       save_session(List(session_history), ChatMetadata,
                                                    clock).file)
                /\ chat_log' = IF chat_log.on
                               THEN [chat_log EXCEPT !.saved_by = write(@, save_file, chats)]
                               ELSE chat_log
    /\ UNCHANGED <<environ, NotChat, clock, historyFile, chatPc, chats, inputs,
                   no_history, session_name, session_file, history, session_history,
                   agent_history>>

\* "exit" or "quit": a named session with entries is saved, the loop ends
ChatExit ==
    /\ chatPc = "prompt"
    /\ IF session_name # "" /\ session_file # NoFile /\ session_history # <<>>
       THEN sessionDir' = write(sessionDir, session_file,
                                save_session(List(session_history), ChatMetadata, clock).file)
       ELSE UNCHANGED sessionDir
    /\ chatPc' = "closed"
    /\ history' = <<>>
    /\ session_history' = <<>>
    /\ agent_history' = <<>>
    /\ chat_log' = IF chat_log.on
                   THEN [chat_log EXCEPT !.ended = "exit", !.final = session_history,
                                         !.saved_by = IF sessionDir' # sessionDir
                                                      THEN write(@, session_file, chats)
                                                      ELSE @]
                   ELSE chat_log
    /\ UNCHANGED <<environ, NotChat, clock, historyFile, chats, inputs, no_history,
                   session_name, session_file>>

ChatNext ==
    \/ ChatStart
    \/ ChatTurn
    \/ ChatTurnFails
    \/ ChatInterrupt
    \/ ChatShowHistory
    \/ ChatClear
    \/ ChatSave
    \/ ChatExit

SpecChat == ChatInit /\ [][ChatNext]_vars

SpecChatLog == ChatLogInit /\ [][ChatNext]_vars

----------------------------------------------------------------------------
(* The configuration as a state machine: one call of load_config or of an  *)
(* assembly, which starts with load_config, on the files of ~/.xerus       *)

CfgInit ==
    /\ environ \in ProcessEnvironments
    /\ configFile \in ConfigFiles
    /\ envFile \in EnvFiles
    /\ dotenv_available \in BOOLEAN
    /\ world \in Worlds
    /\ config = Null
    /\ printed = <<>>
    /\ built = Nothing
    /\ cfgRaised = "none"
    /\ cfgPc = "idle"
    /\ templateFile = Absent
    /\ xerus_dir = TRUE
    /\ SubstIdle
    /\ ToolsIdle
    /\ StoreIdle
    /\ SessIdle
    /\ ChatIdle
    /\ CliIdle
    /\ PermIdle
    /\ ResolveIdle
    /\ RaceIdle
    /\ CallIdle
    /\ AgentIdle

\* What load_config prints about .env
dotenv_printed ==
    IF dotenv_called THEN <<"Loaded environment variables">>
    ELSE IF envFile # Absent THEN <<"Warning: .env file found but python-dotenv not installed">>
    ELSE <<>>

\* load_config() with r what its config.json part does: the .env file
\* first; the exception of load_dotenv passes to the caller
LoadConfigRaised(r) == IF dotenv_raises THEN "PermissionError" ELSE r.raised
LoadConfigPrinted(r) == IF dotenv_raises THEN <<>> ELSE dotenv_printed \o r.printed

\* The call: os.environ after load_dotenv, then config.json read with it
CallLoadConfig(r) ==
    /\ UNCHANGED <<configFile, envFile, dotenv_available, world, templateFile, xerus_dir>>
    /\ environ' = environ_after_dotenv
    /\ config' = IF dotenv_raises THEN Null ELSE r.value

LoadConfig ==
    /\ cfgPc \in {"idle", "ensure_config_exists"}
    /\ \E tree \in {parsed_config} :
         LET r == read_config(configFile, substitute_env_vars(tree)')
         IN  /\ CallLoadConfig(r)
             /\ cfgRaised' = LoadConfigRaised(r)
             /\ printed' = printed \o LoadConfigPrinted(r)
    /\ built' = Nothing
    /\ cfgPc' = "load_config"
    /\ UNCHANGED NotCfg

\* An assembly: load_config, then the manager agent from what it returned;
\* setup_built_in_tools of tools.py calls load_config once more
Assemble(legacy) ==
    /\ cfgPc = "idle"
    /\ \E tree \in {parsed_config} :
         LET r == read_config(configFile, substitute_env_vars(tree)')
         IN  /\ CallLoadConfig(r)
             /\ built' = IF LoadConfigRaised(r) # "none" THEN Nothing
                         ELSE create_manager_agent(config', world, legacy)
             /\ cfgRaised' = IF LoadConfigRaised(r) # "none" THEN LoadConfigRaised(r)
                             ELSE built'.raised
             /\ printed' = LoadConfigPrinted(r)
                           \o (IF legacy /\ built'.raised # "ValueError"
                               THEN LoadConfigPrinted(r) ELSE <<>>)
                           \o built'.printed
    /\ cfgPc' = IF legacy THEN "setup_manager_agent" ELSE "create_manager_agent"
    /\ UNCHANGED NotCfg

CreateManagerAgent == Assemble(FALSE)

SetupManagerAgent == Assemble(TRUE)

CfgNext == LoadConfig \/ CreateManagerAgent \/ SetupManagerAgent

SpecConfig == CfgInit /\ [][CfgNext]_vars

----------------------------------------------------------------------------
(* The first use of the configuration: ensure_config_exists, which nothing *)
(* in the program calls, and load_config, in any order                     *)

FirstUseInit ==
    /\ environ \in ProcessEnvironments
    /\ configFile \in ConfigFiles
    /\ envFile \in EnvFiles
    /\ dotenv_available \in BOOLEAN
    /\ templateFile \in TemplateFiles
    /\ xerus_dir \in BOOLEAN
    /\ (configFile # Absent \/ envFile # Absent) => xerus_dir
    /\ world = Null
    /\ config = Null
    /\ printed = <<>>
    /\ built = Nothing
    /\ cfgRaised = "none"
    /\ cfgPc = "idle"
    /\ SubstIdle
    /\ ToolsIdle
    /\ StoreIdle
    /\ SessIdle
    /\ ChatIdle
    /\ CliIdle
    /\ PermIdle
    /\ ResolveIdle
    /\ RaceIdle
    /\ CallIdle
    /\ AgentIdle

EnsureConfigExists ==
    /\ cfgPc = "idle"
    /\ LET r == ensure_config_exists(xerus_dir, configFile, templateFile)
       IN  /\ configFile' = r.file
           /\ printed' = r.printed
    /\ xerus_dir' = TRUE
    /\ cfgPc' = "ensure_config_exists"
    /\ UNCHANGED <<environ, envFile, dotenv_available, world, templateFile, config, built,
                   cfgRaised, NotCfg>>

FirstUseNext == EnsureConfigExists \/ LoadConfig

SpecFirstUse == FirstUseInit /\ [][FirstUseNext]_vars

----------------------------------------------------------------------------
(* The subcommands as a state machine: one run of one subcommand under the *)
(* decorator, from its command line to the exit of the process             *)

CliInit ==
    /\ argv \in CommandLines
    /\ home \in (IF argv.command = "init" THEN Homes ELSE {NoHome})
    /\ environ \in (IF argv.command = "init" THEN InitEnvironments ELSE {<<>>})
    /\ sessionDir \in (IF argv.command \in {"sessions", "load"} THEN SessionDirs
                       ELSE {NoFiles})
    /\ clock = 0
    /\ fault \in Faults(argv.command)
    /\ thrown = NoFault
    /\ console = <<>>
    /\ panels = <<>>
    /\ created = {}
    /\ returned = "no return"
    /\ exit_status = -1
    /\ cliPc = "ready"
    /\ SubstIdle
    /\ ToolsIdle
    /\ SessIdle
    /\ ChatIdle
    /\ CfgIdle
    /\ PermIdle
    /\ ResolveIdle
    /\ RaceIdle
    /\ CallIdle
    /\ AgentIdle

\* The wrapper around the body of a command, and the exit of the process
Invoke(command, outcome) ==
    /\ cliPc = "ready"
    /\ argv.command = command
    /\ LET w == handle_command_errors(outcome)
       IN  /\ panels' = w.panels
           /\ returned' = w.returned
           /\ exit_status' = process_exit(w)
    /\ thrown' = outcome.raises
    /\ console' = outcome.console
    /\ created' = outcome.created
    /\ cliPc' = "done"
    /\ UNCHANGED <<environ, argv, home, fault, NotCli>>

InitCommand == Invoke("init", init(argv, home, fault))

RunCommand == Invoke("run", run(fault))

ChatCommand == Invoke("chat", chat(fault))

ListSessionsCommand == Invoke("sessions", list_sessions_command(sessionDir, fault))

LoadSessionCommand == Invoke("load", load_session_command(argv, sessionDir, fault))

CliNext ==
    \/ InitCommand
    \/ RunCommand
    \/ ChatCommand
    \/ ListSessionsCommand
    \/ LoadSessionCommand

SpecCli == CliInit /\ [][CliNext]_vars

----------------------------------------------------------------------------
(* The credentials file as a state machine: init from the validated API key *)
(* to its last message, one system call or print block at a time            *)

Umasks ==
    { {}, {"S_IWGRP", "S_IWOTH"}, {"S_IWGRP", "S_IROTH", "S_IWOTH"},
      {"S_IRGRP", "S_IWGRP", "S_IROTH", "S_IWOTH"} }

EnvModes ==
    { NoMode, {"S_IRUSR", "S_IWUSR"}, {"S_IRUSR", "S_IWUSR", "S_IRGRP", "S_IROTH"},
      {"S_IRUSR", "S_IRGRP", "S_IROTH"}, PermissionBits }

InitEnvInit ==
    /\ environ = <<>>
    /\ SubstIdle
    /\ ToolsIdle
    /\ StoreIdle
    /\ SessIdle
    /\ ChatIdle
    /\ CfgIdle
    /\ CliIdle
    /\ ResolveIdle
    /\ RaceIdle
    /\ CallIdle
    /\ AgentIdle
    /\ env_mode \in EnvModes
    /\ env_key = FALSE
    /\ umask \in Umasks
    /\ chmod_raises \in BOOLEAN
    /\ said = <<>>
    /\ envPc = "validated"

OpenEnvFile ==
    /\ envPc = "validated"
    /\ IF open_w_raises(env_mode)
       THEN /\ envPc' = "raised"
            /\ UNCHANGED env_mode
       ELSE /\ envPc' = "opened"
            /\ env_mode' = open_w_mode(env_mode, umask)
    /\ UNCHANGED <<environ, NotPerm, env_key, umask, chmod_raises, said>>

WriteEnvFile ==
    /\ envPc = "opened"
    /\ env_key' = TRUE
    /\ envPc' = "written"
    /\ UNCHANGED <<environ, NotPerm, env_mode, umask, chmod_raises, said>>

ChmodEnvFile ==
    /\ envPc = "written"
    /\ IF chmod_raises
       THEN /\ said' = said \o <<CreatedEnvFile, PermissionWarning>>
            /\ UNCHANGED env_mode
       ELSE /\ env_mode' = ChmodMode
            /\ said' = said \o <<CreatedEnvFile \o " (permissions: 600)">>
    /\ envPc' = "chmod"
    /\ UNCHANGED <<environ, NotPerm, env_key, umask, chmod_raises>>

ReportSetup ==
    /\ envPc = "chmod"
    /\ said' = said \o SetupComplete
    /\ envPc' = "done"
    /\ UNCHANGED <<environ, NotPerm, env_mode, env_key, umask, chmod_raises>>

InitEnvNext == OpenEnvFile \/ WriteEnvFile \/ ChmodEnvFile \/ ReportSetup

SpecInitEnv == InitEnvInit /\ [][InitEnvNext]_vars

----------------------------------------------------------------------------
(* The resolution of the session option as a state machine: one call of     *)
(* load on the files that are there                                         *)

\* File names: a session without extension, with it, with it twice, with
\* other text before or after its name, and another session
DirNames ==
    { <<"s">>, <<"s", ".json">>, <<"s", ".json", ".json">>, <<"t", "s", ".json">>,
      <<"s", "t", ".json">>, <<"t", ".json">>, <<"t">> }

\* The --session option: names, with and without .json, and a name no
\* file has
SessionArgs == { <<"s">>, <<"s", ".json">>, <<"t">>, <<"t", "s">>, <<"u">>, <<"t", ".json">> }

ResolveInit ==
    /\ environ = <<>>
    /\ SubstIdle
    /\ ToolsIdle
    /\ StoreIdle
    /\ SessIdle
    /\ ChatIdle
    /\ CfgIdle
    /\ CliIdle
    /\ PermIdle
    /\ RaceIdle
    /\ CallIdle
    /\ AgentIdle
    /\ session_option \in SessionArgs
    /\ cwd_files \in {{}, {session_option}}
    /\ dir_names \in SUBSET DirNames
    /\ resolved = NoResolution
    /\ resolvePc = "ready"

ResolveSession ==
    /\ resolvePc = "ready"
    /\ resolved' = resolve_session(session_option, cwd_files, dir_names)
    /\ resolvePc' = "done"
    /\ UNCHANGED <<environ, NotResolve, session_option, cwd_files, dir_names>>

ResolveNext == ResolveSession

SpecResolve == ResolveInit /\ [][ResolveNext]_vars

----------------------------------------------------------------------------
(* Two chats on one history file as a state machine: each loads the file,   *)
(* and after every turn opens it and writes its own history                 *)

Chats == {1, 2}

\* Turns of each of the two chats.
MaxRaceTurns == 2

\* history.json before the chats: empty, or written by earlier chats that
\* came close to the cap
RaceTexts == {<<>>, text_of(save_conversation_history(Earlier(HistoryCap - 2)).file)}

RaceInit ==
    /\ environ = <<>>
    /\ SubstIdle
    /\ ToolsIdle
    /\ StoreIdle
    /\ SessIdle
    /\ ChatIdle
    /\ CfgIdle
    /\ CliIdle
    /\ PermIdle
    /\ ResolveIdle
    /\ CallIdle
    /\ AgentIdle
    /\ disk \in RaceTexts
    /\ mem = [p \in Chats |-> <<>>]
    /\ racePc = [p \in Chats |-> "start"]
    /\ asked = [p \in Chats |-> 0]
    /\ raced = [p \in Chats |-> FALSE]
    /\ last_write = NoWrite

\* history = load_conversation_history()
RaceLoad(p) ==
    /\ racePc[p] = "start"
    /\ mem' = [mem EXCEPT ![p] = load_conversation_history(file_of(disk))]
    /\ racePc' = [racePc EXCEPT ![p] = "prompt"]
    /\ UNCHANGED <<environ, NotRace, disk, asked, raced, last_write>>

\* A turn: the input and the reply are appended to the history
RaceTurn(p) ==
    /\ racePc[p] = "prompt"
    /\ asked[p] < MaxRaceTurns
    /\ asked' = [asked EXCEPT ![p] = @ + 1]
    /\ mem' = [mem EXCEPT ![p] = @ \o <<Entry("user", Text(10 * p + asked'[p])),
                                        Entry("assistant", Reply(10 * p + asked'[p]))>>]
    /\ racePc' = [racePc EXCEPT ![p] = "save"]
    /\ UNCHANGED <<environ, NotRace, disk, raced, last_write>>

\* save_conversation_history: open(history_file, "w")
RaceOpen(p) ==
    /\ racePc[p] = "save"
    /\ disk' = open_w(disk)
    /\ raced' = [q \in Chats |-> IF q = p THEN \E r \in Chats \ {p} : racePc[r] = "opened"
                                 ELSE raced[q] \/ racePc[q] = "opened"]
    /\ racePc' = [racePc EXCEPT ![p] = "opened"]
    /\ UNCHANGED <<environ, NotRace, mem, asked, last_write>>

\* save_conversation_history: json.dump and the end of the with block
RaceWrite(p) ==
    /\ racePc[p] = "opened"
    /\ \E text \in {text_of(save_conversation_history(mem[p]).file)} :
          /\ disk' = write_at_0(disk, text)
          /\ last_write' = [by |-> p, text |-> text, raced |-> raced[p]]
    /\ racePc' = [racePc EXCEPT ![p] = "prompt"]
    /\ UNCHANGED <<environ, NotRace, mem, asked, raced>>

RaceNext == \E p \in Chats : RaceLoad(p) \/ RaceTurn(p) \/ RaceOpen(p) \/ RaceWrite(p)

SpecRace == RaceInit /\ [][RaceNext]_vars

----------------------------------------------------------------------------
(* get_model and create_agent as a state machine: one call of either        *)

\* Longest --imports string, in chunks.
MaxImportChunks == 3

\* The longest tools list given to create_agent
MaxListedTools == 2

ModelTypes == model_map \cup {"unknown", "azure-openai", ""}

ModelIds == {"m", "org/model"}

\* The --imports strings: no two names side by side, they would be one name
ImportStrings ==
    {s \in SeqsUpTo({"pandas", "numpy", " ", ","}, MaxImportChunks) :
        \A k \in 1..(Len(s) - 1) : s[k] \in {" ", ","} \/ s[k + 1] \in {" ", ","}}

\* The tools of the tools list, those of them whose loading may fail, the
\* options that name one more source, and the directories of --tool-dirs
ListedTools == {"web_search", "hub:org/tool", "./t.py"}
BreakableTools == {"hub:org/tool", "./t.py"}
ToolOptions == {"", "tool_local", "tool_hub", "tool_space", "tool_collection"}
ToolDirs == {"./tools", "./missing", "./denied", "./mixed"}

InitializeFaults ==
    {"none", "ModelInitializationError", "ModelNotFoundError", "AuthenticationError",
     "ConnectionError", "Exception: 401", "Exception: timeout", "Exception"}

CallInit ==
    /\ environ = <<>>
    /\ SubstIdle
    /\ ToolsIdle
    /\ StoreIdle
    /\ SessIdle
    /\ ChatIdle
    /\ CfgIdle
    /\ CliIdle
    /\ PermIdle
    /\ ResolveIdle
    /\ RaceIdle
    /\ AgentIdle
    /\ called \in {"get_model", "create_agent"}
    /\ \/ /\ called = "get_model"
          /\ call_args \in [model_type : ModelTypes, model_id : ModelIds, imports : {<<>>},
                            tools : {<<>>}, tool_option : {""}, tool_dirs : {<<>>}]
          /\ outside \in [accepts : {TRUE}, module : {"none", "ImportError", "AttributeError"},
                          initialize : InitializeFaults, tool_load : {"none"}, broken : {{}},
                          code_agent : {"none"}]
       \/ /\ called = "create_agent"
          /\ \/ call_args \in [model_type : {""}, model_id : {"inference"},
                                imports : ImportStrings, tools : {<<>>},
                                tool_option : {"", "tool_local"}, tool_dirs : {<<>>}]
             \/ call_args \in [model_type : {""}, model_id : {"inference"}, imports : {<<>>},
                                tools : SeqsUpTo(ListedTools, MaxListedTools),
                                tool_option : ToolOptions, tool_dirs : SeqsUpTo(ToolDirs, 1)]
          /\ outside \in [accepts : BOOLEAN, module : {"none"}, initialize : {"none", "Exception"},
                          tool_load : {"none", "ToolLoadError"},
                          broken : SUBSET BreakableTools,
                          code_agent : {"none", "Exception"}]
          /\ outside.broken \subseteq {call_args.tools[k] : k \in 1..Len(call_args.tools)}
          /\ (call_args.tool_option = "") => (outside.tool_load = "none")
    /\ call_result = NoCall
    /\ callPc = "ready"

GetModel ==
    /\ callPc = "ready"
    /\ called = "get_model"
    /\ call_result' = get_model(call_args.model_type, call_args.model_id, outside)
    /\ callPc' = "done"
    /\ UNCHANGED <<environ, NotCall, called, call_args, outside>>

CreateAgent ==
    /\ callPc = "ready"
    /\ called = "create_agent"
    /\ call_result' = agent_create_agent(call_args, outside)
    /\ callPc' = "done"
    /\ UNCHANGED <<environ, NotCall, called, call_args, outside>>

CallNext == GetModel \/ CreateAgent

SpecCall == CallInit /\ [][CallNext]_vars

----------------------------------------------------------------------------
(* An EnhancedAgent as a state machine: calls of run and of clear_history   *)

\* Calls of run and clear_history on one EnhancedAgent.
MaxAgentCalls == 7

AgentOutcomes == {"returns", "Exception", "ToolExecutionError", "KeyboardInterrupt"}

AgentInit ==
    /\ environ = <<>>
    /\ SubstIdle
    /\ ToolsIdle
    /\ StoreIdle
    /\ SessIdle
    /\ ChatIdle
    /\ CfgIdle
    /\ CliIdle
    /\ PermIdle
    /\ ResolveIdle
    /\ RaceIdle
    /\ CallIdle
    /\ self_history = <<>>
    /\ successes = 0
    /\ last_run = NoRun
    /\ agent_calls = 1

AgentRun ==
    /\ agent_calls \in 1..MaxAgentCalls
    /\ \E context \in {"", "c"}, include_history \in BOOLEAN, outcome \in AgentOutcomes :
          LET r == EnhancedAgent_run(self_history, agent_calls, context, include_history,
                                     outcome)
          IN  /\ self_history' = r.history
              /\ successes' = IF outcome = "returns" THEN successes + 1 ELSE successes
              /\ last_run' = [prompt |-> agent_calls, context |-> context,
                              include_history |-> include_history, outcome |-> outcome,
                              before |-> self_history, sent |-> r.sent, raised |-> r.raised]
    /\ agent_calls' = agent_calls + 1
    /\ UNCHANGED <<environ, NotAgent>>

AgentClearHistory ==
    /\ agent_calls \in 1..MaxAgentCalls
    /\ self_history' = <<>>
    /\ successes' = 0
    /\ last_run' = NoRun
    /\ agent_calls' = agent_calls + 1
    /\ UNCHANGED <<environ, NotAgent>>

AgentNext == AgentRun \/ AgentClearHistory

SpecAgent == AgentInit /\ [][AgentNext]_vars

----------------------------------------------------------------------------
(* What the substitution is to do, stated without the scanner              *)

IsName(w) == Len(w) >= 1 /\ \A k \in 1..Len(w) : w[k] \notin {"}", ":"}
IsDefault(w) == \A k \in 1..Len(w) : w[k] # "}"

\* s[i..j] reads ${NAME} or ${NAME:default}.
IsPlaceholderAt(s, i, j) ==
    /\ 1 <= i /\ i + 3 <= j /\ j <= Len(s)
    /\ s[i] = "$" /\ s[i + 1] = "{" /\ s[j] = "}"
    /\ \/ IsName(SubSeq(s, i + 2, j - 1))
       \/ \E c \in (i + 3)..(j - 1) :
            /\ s[c] = ":"
            /\ IsName(SubSeq(s, i + 2, c - 1))
            /\ IsDefault(SubSeq(s, c + 1, j - 1))

HoldsPlaceholder(s) == \E i, j \in 1..Len(s) : IsPlaceholderAt(s, i, j)

\* The value of the placeholder s[i..j]: E[NAME] when set, else the default
\* given, else the empty string.
PlaceholderValue(s, i, j) ==
    LET body  == SubSeq(s, i + 2, j - 1)
        c     == FirstIn(body, 1, {":"})
        name  == SubSeq(body, 1, c - 1)
        deflt == SubSeq(body, c + 1, Len(body))
    IN  IF name \in DOMAIN environ THEN environ[name] ELSE deflt

\* s with its placeholders, taken from the left, replaced by their values.
RECURSIVE Substituted(_)
Substituted(s) ==
    IF ~HoldsPlaceholder(s) THEN s
    ELSE LET i == Min({a \in 1..Len(s) : \E b \in 1..Len(s) : IsPlaceholderAt(s, a, b)})
             j == Min({b \in 1..Len(s) : IsPlaceholderAt(s, i, b)})
         IN  SubSeq(s, 1, i - 1) \o PlaceholderValue(s, i, j)
                 \o Substituted(SubSeq(s, j + 1, Len(s)))

\* C1: substitute_env_vars(s) replaces every ${NAME} and ${NAME:default} of the
\* string s by E[NAME] when NAME is set, else by the default given, else by the
\* empty string, and keeps the text outside placeholders; a string that holds
\* no placeholder is returned unchanged, and substituting it a second time
\* gives what the first substitution gave.
C1_SubstituteString ==
    (substPc # "start" /\ value.t = "str") =>
        /\ results[1] = Str(Substituted(value.v))
        /\ ~HoldsPlaceholder(value.v) => results[1] = value
        /\ (substPc = "twice" /\ ~HoldsPlaceholder(value.v)) => results[2] = results[1]

\* Two placeholders with text around them, A unset: the first becomes the empty
\* string, the second its default, and a second substitution has run.
C1_Witness ==
    /\ substPc = "twice"
    /\ value = Str(<<"x">> \o S_A \o <<"x">> \o S_AdefX \o <<"x">>)
    /\ environ = <<>>
    /\ results[1] = Str(<<"x", "x", "x", "x">>)

RECURSIVE ShapeKept(_, _)
ShapeKept(x, y) ==
    CASE x.t = "str"  -> y = Str(Substituted(x.v))
      [] x.t = "list" -> /\ y.t = "list" /\ Len(y.v) = Len(x.v)
                         /\ \A i \in 1..Len(x.v) : ShapeKept(x.v[i], y.v[i])
      [] x.t = "dict" -> /\ y.t = "dict" /\ Len(y.v) = Len(x.v)
                         /\ \A i \in 1..Len(x.v) :
                              /\ y.v[i][1] = x.v[i][1]
                              /\ ShapeKept(x.v[i][2], y.v[i][2])
      [] OTHER        -> y = x

\* C7: on a configuration tree substitute_env_vars walks lists and mappings to
\* any depth and substitutes string leaves only: the result has the same keys
\* (not substituted), the same list lengths and element order, and every
\* number, boolean and null unchanged.
C7_SubstituteTree ==
    substPc # "start" => ShapeKept(value, results[1])

\* A mapping under a list under a mapping, its key a placeholder text, its
\* leaf a placeholder that A = "x" fills.
C7_Witness ==
    /\ substPc = "once"
    /\ environ = [n \in {<<"A">>} |-> <<"x">>]
    /\ value = Dict(<< <<S_A, List(<<Dict(<< <<S_A, Str(S_A)>>, <<<<"k">>, Null>> >>)>>)>> >>)
    /\ results[1] = Dict(<< <<S_A, List(<<Dict(<< <<S_A, Str(<<"x">>)>>, <<<<"k">>, Null>> >>)>>)>> >>)

----------------------------------------------------------------------------
(* The grammar of tool specifications, stated without the parser           *)

ColonFree(s) == \A k \in 1..Len(s) : s[k] # ":"

\* The text between the first colon (chunk 2) and the next one, or the end.
SecondPart(s) == IF Len(s) >= 3 /\ s[3] # ":" THEN <<s[3]>> ELSE <<>>

HasPrefix(s, spellings) == Len(s) >= 2 /\ s[1] \in spellings /\ s[2] = ":"

\* The class of specification s for a registry with the keys names and the
\* existing paths paths; fileMustExist tells whether a .py path is a local
\* tool only when the file exists.
ClassOf(s, names, paths, fileMustExist) ==
    CASE ColonFree(s) /\ Among(s, names) -> "built_in"
      [] ColonFree(s) /\ ~Among(s, names) /\ Among(s, PyChunks)
           /\ (fileMustExist => Among(s, paths)) -> "local"
      [] HasPrefix(s, {"hub", "HUB"}) -> "hub"
      [] HasPrefix(s, {"space", "Space"}) -> "space"
      [] HasPrefix(s, {"collection"}) -> "collection"
      [] OTHER -> "unknown"

Classified(fileMustExist) ==
    toolPc = "parsed" =>
        LET c == ClassOf(tool_spec, DOMAIN tools, fs, fileMustExist)
        IN  /\ parsed.type = c
            /\ c = "built_in" => parsed = [type |-> "built_in", name |-> tool_spec]
            /\ c = "local" => parsed = [type |-> "local", path |-> tool_spec]
            /\ c = "hub" => parsed = [type |-> "hub", repo_id |-> SecondPart(tool_spec)]
            /\ c = "space" => parsed.space_id = SecondPart(tool_spec)
            /\ c = "collection" =>
                 parsed = [type |-> "collection", slug |-> SecondPart(tool_spec)]
            /\ c = "unknown" => parsed = [type |-> "unknown", spec |-> tool_spec]

\* C3 as stated: parse_tool_spec classifies a registered built-in name as
\* built_in, a .py path such as "./t.py" as local with that path, "hub:org/name"
\* as hub with repo_id "org/name", and every string of no known form as unknown.
C3_Original == Classified(FALSE)

\* C3 as amended: the same, except that a .py path is classified local only
\* when the file exists and unknown otherwise; the prefixes hub, space and
\* collection are matched without regard to case.
C3_ParseToolSpec == Classified(TRUE)

\* "./t.py" exists and has been classified local.
C3_Witness ==
    /\ toolPc = "parsed"
    /\ tool_spec = <<"./t.py">>
    /\ "./t.py" \in fs
    /\ parsed = [type |-> "local", path |-> <<"./t.py">>]

\* C4: load_tool_from_spec calls exactly one loader, that of the class of the
\* specification; for a specification of no known form it raises ToolLoadError,
\* calls no loader and leaves the registry as it was.
C4_LoadDispatch ==
    [][(toolPc = "idle" /\ toolPc' = "loaded") =>
          LET c == ClassOf(tool_spec, DOMAIN tools, fs, TRUE)
          IN  /\ c = "unknown" =>
                   /\ raised' = "ToolLoadError"
                   /\ loaderCalls' = <<>>
                   /\ remoteCalls' = <<>>
                   /\ tools' = tools
              /\ c # "unknown" =>
                   /\ Len(loaderCalls') = 1
                   /\ loaderCalls'[1].loader = c]_vars

\* A .py path whose file does not exist has been refused without a loader call.
C4_Witness ==
    /\ toolPc = "loaded"
    /\ tool_spec = <<"./gone.py">>
    /\ parsed.type = "unknown"
    /\ raised = "ToolLoadError"
    /\ loaderCalls = <<>>
    /\ registered = <<>>

----------------------------------------------------------------------------
(* The round trip of a session, stated without the encoder                 *)

\* x is made of strings, numbers, booleans, None, lists and mappings with
\* string keys: the values JSON has.
RECURSIVE IsJsonValue(_)
IsJsonValue(x) ==
    CASE x.t \in {"str", "num", "bool", "null"} -> TRUE
      [] x.t = "list" -> \A i \in 1..Len(x.v) : IsJsonValue(x.v[i])
      [] x.t = "dict" -> \A i \in 1..Len(x.v) : x.v[i][1].t = "str" /\ IsJsonValue(x.v[i][2])
      [] OTHER -> FALSE

\* load_session has been called on the file of the last save_session
AfterSaveAndLoad == sessPc = "loaded" /\ history_arg # Null

\* C5 as stated: for every history and every metadata passed to save_session,
\* the call without metadata included, load_session returns that history and
\* that metadata; after a second save only the last record is returned.
C5_Original ==
    AfterSaveAndLoad =>
        /\ sessRaised = "none"
        /\ item(loaded, "history") = history_arg
        /\ item(loaded, "metadata") = metadata_arg

\* C5 as amended: for every history and metadata made of JSON values (strings,
\* numbers, booleans, None, lists, mappings with string keys), load_session
\* returns that history, and that metadata or the empty mapping when the
\* metadata is None or not passed; after a second save only the last record.
C5_RoundTrip ==
    (AfterSaveAndLoad /\ IsJsonValue(history_arg) /\ IsJsonValue(metadata_arg)) =>
        /\ sessRaised = "none"
        /\ item(loaded, "history") = history_arg
        /\ item(loaded, "metadata") = (IF metadata_arg = Null THEN Dict(<<>>) ELSE metadata_arg)
        /\ item(loaded, "timestamp") = isoformat(clock)

\* A second save without metadata has replaced a record with metadata, and
\* the load has returned the second history with the empty mapping.
C5_Witness ==
    /\ sessPc = "loaded"
    /\ clock = 2
    /\ metadata_arg = Null
    /\ history_arg = List(<<Entry("user", Str("q")), Entry("assistant", Str("a"))>>)
    /\ item(loaded, "history") = history_arg
    /\ item(loaded, "metadata") = Dict(<<>>)

----------------------------------------------------------------------------
(* The cap of the rolling history file, stated without the slice          *)

\* The last n entries of h in their order, all of h when it has no more
LastEntries(h, n) ==
    LET k == Min({n, Len(h)})
    IN  [i \in 1..k |-> h[Len(h) - k + i]]

\* save_conversation_history(h) is called in this step: a turn of a chat
\* that keeps history ends, and h is the history with the new exchange
SavesHistory ==
    /\ chatPc = "prompt"
    /\ ~no_history
    /\ inputs' = inputs + 1
    /\ Len(history') = Len(history) + 2

----------------------------------------------------------------------------
(* The configuration loader and the missing manager_agent section          *)

Assembled == cfgPc \in {"create_manager_agent", "setup_manager_agent"}

\* The configuration has no manager_agent section: the key is absent or its
\* value is empty
NoManagerSection(c) ==
    \A i \in 1..Len(c.v) :
        c.v[i][1] = Str("manager_agent") => c.v[i][2] \in {Null, Dict(<<>>)}

\* C2: when the loaded configuration has no manager_agent section (absent,
\* empty, or the file failed to load), create_manager_agent and
\* setup_manager_agent raise ValueError, and at that moment no tool class has
\* been imported, no tool agent created, no MCP server contacted and no model
\* client created.
C2_MissingManagerFatal ==
    (Assembled /\ config # Null /\ NoManagerSection(config)) =>
        /\ cfgRaised = "ValueError"
        /\ built.imports = <<>>
        /\ built.agents = <<>>
        /\ built.contacted = <<>>
        /\ built.clients = <<>>
        /\ built.manager = NoAgent

\* The new assembly has met a configuration with tools and servers whose
\* manager_agent section is empty, where everything outside works.
C2_Witness ==
    /\ cfgPc = "create_manager_agent"
    /\ config # Null
    /\ config_get(config, "manager_agent", Null) = Dict(<<>>)
    /\ Len(config_get(config, "tools", Dict(<<>>)).v) = 3
    /\ Len(config_get(config, "mcpServers", Dict(<<>>)).v) = 4
    /\ world.importable = ToolClasses
    /\ cfgRaised = "ValueError"
    /\ built = [Nothing EXCEPT !.raised = "ValueError",
                               !.printed = <<"No manager_agent configuration found">>]

ConfigFailsToLoad == configFile \in {Absent, Unreadable, Garbage}

LoadDiagnostics == {"Configuration file not found", "Error parsing configuration file",
                    "Error loading configuration"}

\* What C10 says of a call that has been made
FailsSoft ==
    /\ cfgPc = "load_config" =>
          /\ cfgRaised = "none"
          /\ ConfigFailsToLoad =>
                /\ config = Dict(<<>>)
                /\ printed # <<>>
                /\ printed[Len(printed)] \in LoadDiagnostics
    /\ (Assembled /\ ConfigFailsToLoad) => cfgRaised = "ValueError"

\* C10 as stated: load_config never raises; when config.json is missing, not
\* valid JSON or unreadable it prints a diagnostic and returns the empty
\* mapping; only the assembly of the manager agent then fails hard.
C10_Original == FailsSoft

\* C10 as amended: the same, unless load_dotenv is called on a ~/.xerus/.env
\* it cannot read: that call is made before the try block, and its exception
\* passes to the caller of load_config.
C10_FailsSoft == ~dotenv_raises => FailsSoft

\* load_config has met an unreadable config.json after loading .env, and has
\* returned the empty mapping with the diagnostic.
C10_Witness ==
    /\ cfgPc = "load_config"
    /\ configFile = Unreadable
    /\ dotenv_called
    /\ envFile # Unreadable
    /\ cfgRaised = "none"
    /\ config = Dict(<<>>)
    /\ printed = <<"Loaded environment variables", "Error loading configuration">>

----------------------------------------------------------------------------
(* The panels of the decorator, stated without the order of its clauses,   *)
(* and the exit status of the subcommands                                  *)

\* The classes that have a panel of their own, each with its error kind
Kinds ==
    [c \in (XerusClasses \ {"ModelError", "ToolError"}) \cup {"Exception"} |->
       CASE c = "AuthenticationError" -> "authentication"
         [] c = "ModelNotFoundError" -> "model-not-found"
         [] c = "ModelInitializationError" -> "model-initialization"
         [] c = "ModelConfigurationError" -> "model-configuration"
         [] c = "ToolLoadError" -> "tool-load"
         [] c = "ToolExecutionError" -> "tool-execution"
         [] c = "NetworkError" -> "network"
         [] c = "APILimitError" -> "rate-limit"
         [] c = "AgentRuntimeError" -> "agent"
         [] c = "EnvironmentError" -> "environment"
         [] c = "InputError" -> "input"
         [] c = "XerusError" -> "generic Xerus"
         [] OTHER -> "unexpected"]

\* The most specific error kind that matches a class: that of the nearest
\* class, the class itself or a base of it, that has a panel
RECURSIVE MostSpecificKind(_)
MostSpecificKind(c) == IF c \in DOMAIN Kinds THEN Kinds[c] ELSE MostSpecificKind(bases(c))

\* The error kind a panel shows, read from its error type and title
KindShown(panel) ==
    CASE panel.title = "Authentication Error" -> "authentication"
      [] panel.error_type = "Model Not Found" -> "model-not-found"
      [] panel.title = "Model Initialization Failed" -> "model-initialization"
      [] panel.title = "Model Configuration Error" -> "model-configuration"
      [] panel.title = "Tool Loading Failed" -> "tool-load"
      [] panel.title = "Tool Execution Failed" -> "tool-execution"
      [] panel.error_type = "Network Error" -> "network"
      [] panel.error_type = "API Limit Error" -> "rate-limit"
      [] panel.error_type = "Agent Error" -> "agent"
      [] panel.error_type = "Environment Error" -> "environment"
      [] panel.error_type = "Input Error" -> "input"
      [] panel.error_type = "Xerus Error" -> "generic Xerus"
      [] panel.error_type = "Unexpected Error" -> "unexpected"
      [] OTHER -> "none"

\* C8: when the body of a wrapped command raises a XerusError or any other
\* Exception, exactly one panel is printed, that of the most specific error
\* kind matching the exception, with the recovery hint of the error when it
\* has one, and the process exits with status 1; when the body returns, the
\* wrapper returns its result and prints no panel.
C8_OnePanelThenExit ==
    cliPc = "done" =>
        /\ (thrown # NoFault /\ issubclass(thrown.class, "Exception")) =>
              /\ Len(panels) = 1
              /\ KindShown(panels[1]) = MostSpecificKind(thrown.class)
              /\ thrown.hint # "" => panels[1].hint = thrown.hint
              /\ returned = "no return"
              /\ exit_status = 1
        /\ thrown = NoFault =>
              /\ panels = <<>>
              /\ returned = "None"

\* run has met a ModelNotFoundError that carries a hint: the panel of that
\* class, not of XerusError, shows the hint, and the process exits with 1.
C8_Witness ==
    /\ cliPc = "done"
    /\ argv.command = "run"
    /\ thrown = [class |-> "ModelNotFoundError", hint |-> "Check the model id"]
    /\ panels = <<[title |-> "Model Error", error_type |-> "Model Not Found",
                   hint |-> "Check the model id"]>>
    /\ exit_status = 1

\* The messages by which a command reports an error it handles itself
ErrorTexts ==
    {"Error: No session file specified.", "Session file not found.",
     "Multiple matching sessions found:", "Error: Template not found",
     "Error: API key cannot be empty"}

\* An error was reported to the user: by a panel or by such a message
ErrorReported ==
    panels # <<>> \/ \E i \in 1..Len(console) : console[i].text \in ErrorTexts

\* C9: a run of a subcommand ends with exit status 0 only when no error
\* occurred and with exit status 1 whenever an error was reported to the
\* user, be it one the command handles itself or an unhandled exception.
C9_ExitStatus ==
    cliPc = "done" =>
        /\ exit_status \in {0, 1}
        /\ ErrorReported => exit_status = 1

----------------------------------------------------------------------------
(* The configuration on first use                                          *)

TemplateUsable == templateFile \notin {Absent, Unreadable}

\* What the template holds once its placeholder is replaced under env
TemplateConfig(env) ==
    Dict(<< <<Str("manager_agent"),
              Dict(<< <<Str("model_id"), Str(<<"m">>)>>,
                      <<Str("api_key"),
                        Str(IF <<"A">> \in DOMAIN env THEN env[<<"A">>] ELSE <<>>)>>,
                      <<Str("name"), Str(<<"boss">>)>> >>)>> >>)

\* A file that is there is left as it is by a load and by ensure_config_exists
NeverOverwritten ==
    (cfgPc' \in {"load_config", "ensure_config_exists"} /\ configFile # Absent)
        => configFile' = configFile

\* C11 as stated: when config.json does not exist, loading the configuration
\* creates it from the bundled template and returns the configuration of
\* the template, its environment variables substituted; a file that exists
\* is never overwritten.
C11_Original ==
    [][/\ (cfgPc' = "load_config" /\ configFile = Absent /\ TemplateUsable
            /\ cfgRaised' = "none")
          => (configFile' = templateFile /\ config' = TemplateConfig(environ'))
       /\ NeverOverwritten]_vars

\* C11 as amended: it is ensure_config_exists that creates config.json from
\* the template when the file does not exist, and a load after it returns
\* the configuration of the template, its environment variables
\* substituted; load_config itself creates nothing and returns the empty
\* mapping when the file does not exist; a file that exists is never
\* overwritten.
C11_FirstUse ==
    [][/\ (cfgPc' = "ensure_config_exists" /\ configFile = Absent /\ TemplateUsable)
          => configFile' = templateFile
       /\ (cfgPc' = "load_config" /\ cfgPc = "ensure_config_exists"
            /\ TemplateUsable /\ configFile = templateFile /\ cfgRaised' = "none")
          => config' = TemplateConfig(environ')
       /\ (cfgPc' = "load_config" /\ configFile = Absent /\ cfgRaised' = "none")
          => (configFile' = Absent /\ config' = Dict(<<>>))
       /\ NeverOverwritten]_vars

\* config.json was created from the template on first use, and the load
\* after it has returned the template with the key of the environment.
C11_Witness ==
    /\ cfgPc = "load_config"
    /\ configFile = TemplateDoc
    /\ xerus_dir
    /\ environ = [n \in {<<"A">>} |-> <<"x">>]
    /\ config = TemplateConfig(environ)
    /\ printed = <<"Created Xerus config directory", "Created default config file">>

----------------------------------------------------------------------------
(* The construction of the configured tools                                *)

\* The assembly has gone past the test of the manager_agent section
SetUp == Assembled /\ config # Null /\ ~NoManagerSection(config)

ToolEntries == config_get(config, "tools", Dict(<<>>)).v
EntryClass(i) == config_get(ToolEntries[i][2], "tool_class", Null)

\* Entry i comes to the constructor: its class is named and imported, and
\* no constructor before it raised what is not a TypeError
Constructs(i) ==
    /\ truthy(EntryClass(i))
    /\ \A j \in 1..i :
          (truthy(EntryClass(j)) /\ EntryClass(j).v \in world.importable)
              => (j = i \/ world.ctor[EntryClass(j).v] \in {"ok", "TypeError"})

\* The worker agents that hold a tool of class c
Holders(c) == {k \in 1..Len(built.agents) : built.agents[k].tools[1].of = c}

Range(seq) == {seq[k] : k \in 1..Len(seq)}

Says(text) == \E k \in 1..Len(built.printed) : built.printed[k] = text

\* C12: a configured tool is constructed with its parameters; when the
\* constructor rejects them with TypeError it is constructed again without
\* arguments and that instance goes to the worker agent; when that fails
\* too the tool is skipped, no worker is made for it, and the next entry is
\* processed.
C12_ConstructorFallback ==
    SetUp =>
      \A i \in 1..Len(ToolEntries) :
        LET c == EntryClass(i).v
            model_id == config_get(ToolEntries[i][2], "model_id", Str(<<>>))
            api_key == config_get(ToolEntries[i][2], "api_key", Str(<<>>))
        IN  (Constructs(i) /\ c \in world.importable) =>
              /\ world.ctor[c] = "ok" =>
                    \A k \in Holders(c) : built.agents[k].tools[1].args = "params"
              /\ (world.ctor[c] = "TypeError" /\ world.ctor0[c] = "ok") =>
                    /\ \A k \in Holders(c) : built.agents[k].tools[1].args = "none"
                    /\ (cfgRaised = "none" /\ create_client(model_id, api_key, world) = "none")
                          => Holders(c) # {}
              /\ (world.ctor[c] = "TypeError" /\ world.ctor0[c] # "ok") =>
                    /\ Holders(c) = {}
                    /\ \A j \in (i + 1)..Len(ToolEntries) :
                          IF truthy(EntryClass(j)) THEN EntryClass(j).v \in Range(built.imports)
                          ELSE Says("Warning: No tool_class specified")

\* The constructor of pkg.Calc rejected the parameters of the entry: the
\* worker of that entry holds the instance made without arguments.
C12_Witness ==
    /\ cfgPc = "create_manager_agent"
    /\ cfgRaised = "none"
    /\ world.ctor[<<"pkg.Calc">>] = "TypeError"
    /\ Says("Creating tool without parameters")
    /\ \E k \in 1..Len(built.agents) :
          /\ built.agents[k].tools = <<ToolInstance(<<"pkg.Calc">>, "none")>>
          /\ built.agents[k].name = Str("calc")

----------------------------------------------------------------------------
(* The shape of the agent hierarchy                                        *)

Returned == Assembled /\ cfgRaised = "none"

\* The place of a class among the tool entries of the configuration
EntryIndex(c) ==
    Min({i \in 1..Len(ToolEntries) : truthy(EntryClass(i)) /\ EntryClass(i).v = c})

\* The tools that were constructed, and those the servers handed over
ConstructedTools ==
    {i \in 1..Len(ToolEntries) :
        /\ truthy(EntryClass(i))
        /\ EntryClass(i).v \in world.importable
        /\ \/ world.ctor[EntryClass(i).v] = "ok"
           \/ world.ctor[EntryClass(i).v] = "TypeError" /\ world.ctor0[EntryClass(i).v] = "ok"}
LoadedTools ==
    UNION {{<<server, k>> : k \in 1..Len(world.servers[server].names)} :
             server \in Range(built.contacted)}

\* C13: a hierarchy that assembly returns has one manager with a model
\* client of its own and no tools; each child is a worker with one tool and
\* a client of its own; no tool is held by two workers; the children are
\* the workers of the configured tools in the order of the configuration,
\* then those of the MCP tools, and are no more than the tools constructed
\* or loaded.
C13_HierarchyShape ==
    Returned =>
      LET agents == built.agents
          n == Cardinality({k \in 1..Len(agents) : agents[k].tools[1].args # "mcp"})
      IN  /\ built.manager # NoAgent
          /\ built.manager.tools = <<>>
          /\ built.manager.managed = agents
          /\ Len(built.clients) = Len(agents) + 1
          /\ built.clients[Len(built.clients)] = built.manager.model_id
          /\ \A k \in 1..Len(agents) :
                /\ Len(agents[k].tools) = 1
                /\ built.clients[k] = agents[k].model_id
                /\ (agents[k].tools[1].args = "mcp") <=> (k > n)
          /\ \A k, l \in 1..Len(agents) : k # l => agents[k].tools # agents[l].tools
          /\ \A k, l \in 1..n :
                k < l => EntryIndex(agents[k].tools[1].of) < EntryIndex(agents[l].tools[1].of)
          /\ Len(agents) <= Cardinality(ConstructedTools) + Cardinality(LoadedTools)

\* An assembly has returned a manager over the workers of two configured
\* tools and of the tools that MCP servers handed over.
C13_Witness ==
    /\ Returned
    /\ Cardinality(ConstructedTools) = 2
    /\ Cardinality({k \in 1..Len(built.agents) : built.agents[k].tools[1].args = "mcp"}) >= 2
    /\ Len(built.manager.managed) = Len(built.agents)
    /\ Cardinality(LoadedTools) >= 2
    /\ Len(built.clients) >= 5

----------------------------------------------------------------------------
(* The permissions of the credentials file                                  *)

OwnerOnly(mode) == mode = {"S_IRUSR", "S_IWUSR"}

KeyStored == env_mode # NoMode /\ env_key

ReportsSuccess == \E i \in 1..Len(said) : said[i] = "Xerus initialized successfully"

\* C14: whenever ~/.xerus/.env exists and holds the API key that init wrote,
\* in the intermediate states of init too, its mode is 0600, and init never
\* reports success while the key is stored under wider permissions.
C14_OwnerOnlyCredentials ==
    /\ KeyStored => OwnerOnly(env_mode)
    /\ ReportsSuccess => OwnerOnly(env_mode)

----------------------------------------------------------------------------
(* The order in which load resolves its session option                      *)

InSessions(name) == [at |-> "sessions", name |-> name]

\* The files of the sessions directory whose name is some text, the option,
\* some text and .json
PartialMatches ==
    {n \in dir_names :
        \E before, after \in {<<>>} \cup {<<c>> : c \in {"s", "t", ".json"}}
                               \cup {<<c, d>> : c, d \in {"s", "t", ".json"}} :
            n = before \o session_option \o after \o <<".json">>}

\* C15: load takes an existing file path as given; otherwise the exact name
\* in the sessions directory; otherwise that name with .json appended;
\* otherwise the only partial match; two or more partial matches load nothing
\* and are listed, no match loads nothing and is reported as not found.  An
\* exact or .json match comes before the partial matches.
C15_ResolutionOrder ==
    resolvePc = "done" =>
        LET exact == session_option \in dir_names
            with_json == (session_option \o <<".json">>) \in dir_names
        IN  /\ session_option \in cwd_files
                  => resolved.path = [at |-> "given", name |-> session_option]
            /\ session_option \notin cwd_files /\ exact
                  => resolved.path = InSessions(session_option)
            /\ session_option \notin cwd_files /\ ~exact /\ with_json
                  => resolved.path = InSessions(session_option \o <<".json">>)
            /\ session_option \notin cwd_files /\ ~exact /\ ~with_json =>
                  /\ Cardinality(PartialMatches) = 1
                        => /\ resolved.path.at = "sessions"
                           /\ resolved.path.name \in PartialMatches
                  /\ Cardinality(PartialMatches) > 1
                        => /\ resolved.path = NoPath
                           /\ resolved.listed = PartialMatches
                           /\ resolved.message = "Multiple matching sessions found:"
                  /\ PartialMatches = {}
                        => /\ resolved.path = NoPath
                           /\ resolved.message = "Session file not found."
            /\ resolved.path # NoPath <=> resolved.message = "Loading session"
            /\ resolved.path = NoPath \/ resolved.listed = {}

\* A .json match was taken although two other files match the option in part
C15_Witness ==
    /\ resolvePc = "done"
    /\ session_option = <<"s">>
    /\ session_option \notin cwd_files
    /\ session_option \notin dir_names
    /\ resolved.path = InSessions(<<"s", ".json">>)
    /\ Cardinality(PartialMatches) >= 3

----------------------------------------------------------------------------
(* The history file under two chats                                         *)

\* No save is under way
Quiet == \A p \in Chats : racePc[p] # "opened"

\* What a history is after the cap
Kept(h) == LastEntries(h, HistoryCap)

\* The history the last writer passed to its save
LastSaved == load_conversation_history(file_of(last_write.text))

\* The exchanges of process q
Exchanges(h, q) ==
    {i \in 1..Len(h) : \E n \in 1..MaxRaceTurns : h[i].v[2][2] \in {Text(10 * q + n), Reply(10 * q + n)}}

\* C16 as stated: after any interleaving of two chats the file is the
\* history, cut to its last 50 entries, of the process that wrote last.
C16_Original ==
    Quiet /\ last_write.by # 0
        => /\ file_of(disk) # Garbage
           /\ load_conversation_history(file_of(disk)) = LastSaved

\* C16: when no other process had the file open during the save of the
\* process that wrote last, the file is the history that process saved, cut
\* to its last 50 entries (its history until its next turn), and no exchange
\* of the other process is in it but those the last writer had loaded.
C16_LastWriterWins ==
    Quiet /\ last_write.by # 0 /\ ~last_write.raced
        => /\ disk = last_write.text
           /\ file_of(disk) # Garbage
           /\ racePc[last_write.by] = "prompt"
                 => load_conversation_history(file_of(disk)) = Kept(mem[last_write.by])
           /\ \A q \in Chats \ {last_write.by} :
                 Cardinality(Exchanges(load_conversation_history(file_of(disk)), q))
                    <= Cardinality(Exchanges(mem[last_write.by], q))

\* The second chat saved an exchange after the first had loaded the file,
\* and the first wrote last, alone: the exchange of the second is lost.
C16_Witness ==
    /\ Quiet
    /\ last_write.by = 1
    /\ ~last_write.raced
    /\ asked[2] >= 1
    /\ racePc[2] = "prompt"
    /\ Exchanges(mem[2], 2) # {}
    /\ Exchanges(load_conversation_history(file_of(disk)), 2) = {}
    /\ Len(load_conversation_history(file_of(disk))) = HistoryCap

----------------------------------------------------------------------------
(* The model of the agents of MCP tools                                     *)

ManagerSection == config_get(config, "manager_agent", Dict(<<>>))

ServerSection(server) ==
    config_get(config_get(config, "mcpServers", Dict(<<>>)), server, Dict(<<>>))

\* C17: the agent of every MCP tool has the model_id and the api_key of the
\* server its tool was loaded from, where the entry of the server gives
\* them, and those of the manager agent where it does not; so for server
\* names with an underscore too.
C17_ServerModel ==
    Returned =>
        \A k \in 1..Len(built.agents) :
            \A server \in Range(built.contacted) :
                \A j \in 1..Len(world.servers[server].names) :
                    built.agents[k].tools[1]
                        = ToolInstance(server \o <<"_">> \o world.servers[server].names[j], "mcp")
                    => /\ built.agents[k].model_id
                            = config_get(ServerSection(server), "model_id",
                                         config_get(ManagerSection, "model_id", Null))
                       /\ built.agents[k].api_key
                            = config_get(ServerSection(server), "api_key",
                                         config_get(ManagerSection, "api_key", Null))

----------------------------------------------------------------------------
(* The history file under --no-history                                      *)

\* C18: a chat started with --no-history neither reads nor writes
\* ~/.xerus/history.json: it starts with an empty history whatever the file
\* holds, and no step of it (a turn, a failed turn, history, clear, save,
\* exit, Ctrl+C) changes the file.
C18_NoHistoryUntouched ==
    [][(no_history' /\ (chatPc = "prompt" \/ chatPc' = "prompt"))
          => /\ historyFile' = historyFile
             /\ chatPc = "closed" => history' = <<>>
             /\ \A i \in 1..Len(history') :
                   \A j \in 1..Len(load_conversation_history(historyFile)) :
                      history'[i] # load_conversation_history(historyFile)[j]]_vars

\* A chat with --no-history has processed two turns beside a file that an
\* earlier chat filled to the cap
C18_Witness ==
    /\ no_history
    /\ chatPc = "prompt"
    /\ Len(history) = 4
    /\ historyFile # Absent
    /\ Len(load_conversation_history(historyFile)) = HistoryCap

----------------------------------------------------------------------------
(* The packages that create_agent authorizes                                *)

\* The names of a string, those a space or a comma ends
RECURSIVE Names(_)
Names(s) ==
    IF s = <<>> THEN <<>>
    ELSE IF Head(s) \in {" ", ","} THEN Names(Tail(s))
    ELSE <<Head(s)>> \o Names(Tail(s))

\* Several package names with spaces between
SpaceSeparated(s) ==
    /\ Len(s) >= 3
    /\ \A k \in 1..Len(s) : (s[k] = " ") <=> (k % 2 = 0)
    /\ \A k \in 1..Len(s) : s[k] # ","

\* C19: create_agent given several package names separated by spaces passes
\* every name as an element of its own of additional_authorized_imports, and
\* constructs the agent once; checked where the model and the tools are
\* there, as in tests/test_cli.py.
C19_ImportsAuthorized ==
    (/\ callPc = "done"
     /\ called = "create_agent"
     /\ SpaceSeparated(call_args.imports)
     /\ outside.accepts
     /\ outside.initialize = "none" /\ outside.tool_load = "none" /\ outside.code_agent = "none")
        => /\ Len(call_result.agents) = 1
           /\ call_result.agents[1].additional_authorized_imports
                 = [k \in 1..Len(Names(call_args.imports)) |-> <<Names(call_args.imports)[k]>>]

----------------------------------------------------------------------------
(* The model type that get_model does not know                              *)

----------------------------------------------------------------------------
(* The history of an EnhancedAgent                                          *)

----------------------------------------------------------------------------
(* The tools that create_agent could not load                               *)

\* The occurrences in the sequence s of the elements of S
Occurrences(s, S) == Cardinality({k \in 1..Len(s) : s[k] \in S})

----------------------------------------------------------------------------
(* The remote tools without HF_TOKEN                                        *)

\* A hub tool, a space tool or a collection was asked for while HF_TOKEN
\* was unset or empty
LoadedWithoutToken ==
    /\ toolPc = "loaded"
    /\ parsed.type \in {"hub", "space", "collection"}
    /\ environ_get(HF_TOKEN, <<>>) = <<>>

\* C23: when HF_TOKEN is unset or empty, loading a hub tool, a space tool
\* or a tool collection fails with AuthenticationError, the remote loader
\* is never called and no tool is registered.
C23_NoTokenAuthenticationError ==
    LoadedWithoutToken =>
        /\ raised = "AuthenticationError"
        /\ remoteCalls = <<>>
        /\ registered = <<>>

\* What does hold without the token: the load fails, nothing is fetched and
\* nothing is registered
C23_NoTokenNoFetch ==
    LoadedWithoutToken =>
        /\ raised = "ToolLoadError"
        /\ remoteCalls = <<>>
        /\ registered = <<>>

----------------------------------------------------------------------------
(* The session of a chat that has ended                                     *)

\* The history of the session file of the chat, as load_session reads it
SavedHistory ==
    LET r == load_session(read(sessionDir, session_file))
    IN  IF r.raised = "none" THEN item(r.value, "history") ELSE Null

\* C24: a chat started with --session-name that took at least one input as
\* a turn ends, by exit, quit or Ctrl+C, with its session file there and
\* holding the session history of the moment the loop ended.
C24_SessionAlwaysSaved ==
    (chatPc = "closed" /\ chat_log.ended # "no" /\ session_name # "" /\ chat_log.turns > 0) =>
        /\ session_file \in DOMAIN sessionDir
        /\ SavedHistory.t = "list"
        /\ SavedHistory.v = chat_log.final

\* What holds of the end by exit or quit: the session that is not empty is
\* in its file
C24_ExitSaves ==
    (chatPc = "closed" /\ chat_log.ended = "exit" /\ session_name # ""
     /\ chat_log.final # <<>>) =>
        /\ session_file \in DOMAIN sessionDir
        /\ SavedHistory.t = "list"
        /\ SavedHistory.v = chat_log.final

----------------------------------------------------------------------------
(* The entries that "clear" has dropped                                     *)

\* C25: once clear has been entered, the entries that were in the history
\* before it are not in the history of this chat or of a later one, and not
\* in the history of the agent, whatever is entered next.
C25_ClearedForGood ==
    \A e \in chat_log.cleared :
        /\ e \notin Range(history)
        /\ \A x \in Range(agent_history) : e # Entry("user", x.user)

----------------------------------------------------------------------------
(* The exchanges of the chat loop                                           *)

\* Only complete exchanges: every user entry with the reply to it after it
CompleteExchanges(h) ==
    /\ Len(h) % 2 = 0
    /\ \A j \in 1..(Len(h) \div 2) :
          \E n \in 1..MaxInputs :
              /\ h[2 * j - 1] = Entry("user", Text(n))
              /\ h[2 * j] = Entry("assistant", Reply(n))

\* C26: whenever the chat loop waits for the next input, session_history
\* and what was added to history since the start are complete exchanges:
\* user and assistant in turn, each input followed by the reply to it.
C26_CompleteExchangesOnly ==
    (chatPc = "prompt") =>
        /\ CompleteExchanges(session_history)
        /\ Len(history) >= Len(session_history)
        /\ SubSeq(history, Len(history) - Len(session_history) + 1, Len(history))
              = session_history

\* What holds while no turn has failed: the inputs taken as turns are the
\* exchanges of the session
C26_WhileNoFailure ==
    (chatPc = "prompt" /\ 2 * chat_log.turns = Len(session_history)) =>
        CompleteExchanges(session_history)

----------------------------------------------------------------------------
(* The tool entries that fail, and the others                               *)

\* The tool entries that are valid: the class is named and imported, an
\* instance of it can be constructed, and its model client can be created
ValidEntries ==
    {i \in ConstructedTools :
        create_client(config_get(ToolEntries[i][2], "model_id", Str(<<>>)),
                      config_get(ToolEntries[i][2], "api_key", Str(<<>>)), world) = "none"}

\* The manager agent itself can be made
ManagerValid ==
    LET manager_config == config_get(config, "manager_agent", Dict(<<>>))
    IN  create_client(config_get(manager_config, "model_id", Null),
                      config_get(manager_config, "api_key", Null), world) = "none"

\* C27: whatever fails for a tool entry (no tool_class, a class that cannot
\* be imported, a constructor that raises, a worker agent that cannot be
\* made), the assembly of the tools returns and there is a worker agent for
\* every other entry that is valid.
C27_FailuresIsolated ==
    SetUp =>
        /\ ManagerValid => cfgRaised = "none"
        /\ \A i \in ValidEntries : Holders(EntryClass(i).v) # {}

\* What holds in tools/builtin_manager.py when no constructor raises
\* anything but TypeError
C27_TypeErrorsIsolated ==
    (/\ SetUp
     /\ cfgPc = "create_manager_agent"
     /\ \A c \in ToolClasses : world.ctor[c] \in {"ok", "TypeError"}) =>
        /\ ManagerValid => cfgRaised = "none"
        /\ \A i \in ValidEntries : Holders(EntryClass(i).v) # {}

----------------------------------------------------------------------------
(* The files of the saved sessions                                          *)

\* C28: every saved session is kept in a file of its own: the save of one
\* invocation never writes over the file that another invocation saved,
\* also when both sessions have the same name, or none, and are created in
\* the same second.
C28_OwnFile ==
    [][\A f \in DOMAIN sessionDir :
          (f \in DOMAIN chat_log.saved_by /\ sessionDir'[f] # sessionDir[f])
              => chat_log.saved_by[f] = chats]_vars

\* What holds of the names: a save writes the file of the session name and
\* of the second in which the file was named
C28_NamedBySecond ==
    [][\A f \in DOMAIN sessionDir' \ DOMAIN sessionDir :
          /\ f.name = session_name
          /\ f.stamp <= clock]_vars

====
